---------------------------- MODULE Spec2Model ----------------------------
(***************************************************************************)
(* Sense-line reformatter (src/senseline_reformat_v6.py).                  *)
(*                                                                         *)
(* A line is a TLA+ string.  Offsets are Python offsets: an offset p is    *)
(* the number of characters to the left of a position, so line[:p] is      *)
(* Upto(line, p) and line[p:] is From(line, p).  Every regular expression  *)
(* of the source is translated into an operator that returns what the     *)
(* Python matcher returns (the groups of the first match in backtracking   *)
(* order), or None.                                                        *)
(***************************************************************************)
EXTENDS Integers, Sequences, FiniteSets, TLC

\* no position (Python's None), and no match where a match is a tuple
None == 0 - 1
NoMatch == <<>>

(***************************************************************************)
(* Characters and slices                                                   *)
(***************************************************************************)
Upto(s, p) == SubSeq(s, 1, p)
From(s, p) == SubSeq(s, p + 1, Len(s))
Slice(s, a, b) == SubSeq(s, a + 1, b)
Ch(s, p) == SubSeq(s, p + 1, p + 1)
At(s, p, lit) == p + Len(lit) <= Len(s) /\ SubSeq(s, p + 1, p + Len(lit)) = lit
StartsWith(s, lit) == At(s, 0, lit)
MaxOf(a, b) == IF a >= b THEN a ELSE b
MinOf(a, b) == IF a <= b THEN a ELSE b
Abs(n) == IF n < 0 THEN 0 - n ELSE n

WhiteSpace == {" ", "\t", "\r", "\f"}
Digits == {"0", "1", "2", "3", "4", "5", "6", "7", "8", "9"}
LowerLetters ==
    {"a", "b", "c", "d", "e", "f", "g", "h", "i", "j", "k", "l", "m",
     "n", "o", "p", "q", "r", "s", "t", "u", "v", "w", "x", "y", "z"}
LowerMap ==
    ("A" :> "a") @@ ("B" :> "b") @@ ("C" :> "c") @@ ("D" :> "d") @@
    ("E" :> "e") @@ ("F" :> "f") @@ ("G" :> "g") @@ ("H" :> "h") @@
    ("I" :> "i") @@ ("J" :> "j") @@ ("K" :> "k") @@ ("L" :> "l") @@
    ("M" :> "m") @@ ("N" :> "n") @@ ("O" :> "o") @@ ("P" :> "p") @@
    ("Q" :> "q") @@ ("R" :> "r") @@ ("S" :> "s") @@ ("T" :> "t") @@
    ("U" :> "u") @@ ("V" :> "v") @@ ("W" :> "w") @@ ("X" :> "x") @@
    ("Y" :> "y") @@ ("Z" :> "z")
UpperLetters == DOMAIN LowerMap
WordChars == LowerLetters \cup UpperLetters \cup Digits \cup {"_"}

\* \s, \w, \d at offset p (FALSE at the end of the string)
IsSpace(s, p) == p < Len(s) /\ Ch(s, p) \in WhiteSpace
IsWord(s, p) == p >= 0 /\ p < Len(s) /\ Ch(s, p) \in WordChars
IsDigit(s, p) == p < Len(s) /\ Ch(s, p) \in Digits
\* \b at offset p
WordBoundary(s, p) == IsWord(s, p - 1) # IsWord(s, p)

LowerCh(c) == IF c \in UpperLetters THEN LowerMap[c] ELSE c
\* a literal at offset p under re.IGNORECASE
AtI(s, p, lit) ==
    /\ p + Len(lit) <= Len(s)
    /\ \A k \in 0..(Len(lit) - 1) : LowerCh(Ch(s, p + k)) = LowerCh(Ch(lit, k))

\* the offset after the longest run of \s (of \w) that starts at p
RECURSIVE SkipSpace(_, _)
SkipSpace(s, p) == IF IsSpace(s, p) THEN SkipSpace(s, p + 1) ELSE p
RECURSIVE SkipWord(_, _)
SkipWord(s, p) == IF IsWord(s, p) THEN SkipWord(s, p + 1) ELSE p

\* str.rstrip(), str.lstrip(), str.strip(), str.rstrip(', ')
RECURSIVE RStripSet(_, _)
RStripSet(s, cs) ==
    IF Len(s) > 0 /\ Ch(s, Len(s) - 1) \in cs
    THEN RStripSet(Upto(s, Len(s) - 1), cs) ELSE s
RECURSIVE LStripSet(_, _)
LStripSet(s, cs) ==
    IF Len(s) > 0 /\ Ch(s, 0) \in cs THEN LStripSet(From(s, 1), cs) ELSE s
StripSpace == WhiteSpace \cup {"\n"}
rstrip(s) == RStripSet(s, StripSpace)
lstrip(s) == LStripSet(s, StripSpace)
strip(s) == lstrip(rstrip(s))

\* the least (greatest) member of a non-empty set of offsets
Least(S) == CHOOSE x \in S : \A y \in S : x <= y
Greatest(S) == CHOOSE x \in S : \A y \in S : x >= y

\* list helpers: the lines produced for each line, in order
RECURSIVE FlatMap(_, _)
FlatMap(F(_), lines) ==
    IF lines = <<>> THEN <<>> ELSE F(Head(lines)) \o FlatMap(F, Tail(lines))


(***************************************************************************)
(* CONFIGURATION: the break patterns of M10.  A pattern is a record: re    *)
(* names the shape of the regular expression, lit its literal part.        *)
(*   lit_s       lit\s              lit        lit                         *)
(*   comma_word  ,\s+(lit\s)        space_word \s+(lit\s)                  *)
(*   bare_that   (?<!,)\s(that\s)   comma_s    ,\s+                        *)
(***************************************************************************)
BREAK_PATTERNS_COMMA ==
    << [re |-> "lit_s", lit |-> ":", btype |-> "after"],
       [re |-> "lit_s", lit |-> ";", btype |-> "after"],
       [re |-> "lit", lit |-> "--", btype |-> "after"],
       [re |-> "comma_word", lit |-> "and", btype |-> "before_word"],
       [re |-> "comma_word", lit |-> "that", btype |-> "before_word"],
       [re |-> "comma_word", lit |-> "which", btype |-> "before_word"],
       [re |-> "comma_word", lit |-> "but", btype |-> "before_word"],
       [re |-> "comma_word", lit |-> "for", btype |-> "before_word"],
       [re |-> "comma_word", lit |-> "because", btype |-> "before_word"],
       [re |-> "comma_word", lit |-> "even", btype |-> "before_word"],
       [re |-> "comma_word", lit |-> "save", btype |-> "before_word"],
       [re |-> "comma_word", lit |-> "unto", btype |-> "before_word"],
       [re |-> "comma_word", lit |-> "upon", btype |-> "before_word"],
       [re |-> "comma_word", lit |-> "from", btype |-> "before_word"],
       [re |-> "comma_word", lit |-> "in", btype |-> "before_word"],
       [re |-> "comma_word", lit |-> "to", btype |-> "before_word"],
       [re |-> "comma_word", lit |-> "or", btype |-> "before_word"],
       [re |-> "comma_word", lit |-> "nor", btype |-> "before_word"],
       [re |-> "comma_word", lit |-> "neither", btype |-> "before_word"],
       [re |-> "comma_word", lit |-> "until", btype |-> "before_word"],
       [re |-> "comma_word", lit |-> "after", btype |-> "before_word"],
       [re |-> "comma_word", lit |-> "before", btype |-> "before_word"],
       [re |-> "comma_word", lit |-> "lest", btype |-> "before_word"],
       [re |-> "comma_word", lit |-> "saith", btype |-> "before_word"],
       [re |-> "comma_word", lit |-> "according", btype |-> "before_word"] >>

BREAK_PATTERNS_NOCOMMA ==
    << [re |-> "space_word", lit |-> "unto the", btype |-> "before"],
       [re |-> "space_word", lit |-> "upon the", btype |-> "before"],
       [re |-> "space_word", lit |-> "from the", btype |-> "before"],
       [re |-> "space_word", lit |-> "into the", btype |-> "before"],
       [re |-> "space_word", lit |-> "in the", btype |-> "before"],
       [re |-> "space_word", lit |-> "by the", btype |-> "before"],
       [re |-> "space_word", lit |-> "among the", btype |-> "before"],
       [re |-> "space_word", lit |-> "among all", btype |-> "before"],
       [re |-> "space_word", lit |-> "before the", btype |-> "before"],
       [re |-> "space_word", lit |-> "after the", btype |-> "before"],
       [re |-> "space_word", lit |-> "against the", btype |-> "before"],
       [re |-> "space_word", lit |-> "concerning", btype |-> "before"],
       [re |-> "space_word", lit |-> "down to", btype |-> "before"],
       [re |-> "space_word", lit |-> "out of", btype |-> "before"],
       [re |-> "space_word", lit |-> "save it be", btype |-> "before"] >>

BARE_THAT == [re |-> "bare_that", lit |-> "that", btype |-> "before"]
ANY_COMMA == [re |-> "comma_s", lit |-> ",", btype |-> "before"]

CONTENT_AFTER_THAT ==
    << "he ", "she ", "they ", "ye ", "I ", "we ", "it ",
       "the ", "a ", "an ", "as ", "there ", "this ", "those ",
       "when ", "if ", "in ", "all ", "my ", "his ", "her ", "our ",
       "your ", "thy ", "their ", "no ", "not ", "from " >>

\* any(rest.startswith(s) for s in CONTENT_AFTER_THAT), rest = line[p:]
StartsContentClause(line, p) ==
    \E i \in 1..Len(CONTENT_AFTER_THAT) : At(line, p, CONTENT_AFTER_THAT[i])

\* the end offset of the match of pattern pat that starts at offset p, or None
MatchEnd(pat, s, p) ==
    LET n == Len(pat.lit)
        q == SkipSpace(s, p + 1)
        r == SkipSpace(s, p)
    IN  CASE pat.re = "lit_s" ->
               IF At(s, p, pat.lit) /\ IsSpace(s, p + n) THEN p + n + 1 ELSE None
          [] pat.re = "lit" ->
               IF At(s, p, pat.lit) THEN p + n ELSE None
          [] pat.re = "comma_word" ->
               IF /\ At(s, p, ",")
                  /\ q > p + 1
                  /\ At(s, q, pat.lit)
                  /\ IsSpace(s, q + n)
               THEN q + n + 1 ELSE None
          [] pat.re = "space_word" ->
               IF /\ IsSpace(s, p)
                  /\ At(s, r, pat.lit)
                  /\ IsSpace(s, r + n)
               THEN r + n + 1 ELSE None
          [] pat.re = "bare_that" ->
               IF /\ ~(p > 0 /\ Ch(s, p - 1) = ",")
                  /\ IsSpace(s, p)
                  /\ At(s, p + 1, "that")
                  /\ IsSpace(s, p + 5)
               THEN p + 6 ELSE None
          [] pat.re = "comma_s" ->
               IF At(s, p, ",") /\ q > p + 1 THEN q ELSE None

\* re.finditer(pat, s): the non-overlapping matches from left to right.  A
\* match at an offset depends on the string and the offset alone, so the scan
\* takes the leftmost start at or after p and resumes at the end of its match.
RECURSIVE Scan(_, _, _, _)
Scan(pat, s, starts, p) ==
    LET rest == {x \in starts : x >= p}
        a == Least(rest)
        e == MatchEnd(pat, s, a)
    IN  IF rest = {} THEN <<>>
        ELSE <<[start |-> a, end |-> e]>> \o Scan(pat, s, rest \ {a}, e)

finditer(pat, s) ==
    Scan(pat, s, {x \in 0..(Len(s) - 1) : MatchEnd(pat, s, x) # None}, 0)

(***************************************************************************)
(* M0: em dash trailing word reattachment                                  *)
(***************************************************************************)
\* ^(.+)--([\w]+[,;.]?)$ : the offsets d of a '--' whose rest is one bare
\* word, optionally followed by one of , ; .
M0Dashes(line) ==
    {d \in 1..(Len(line) - 3) :
        /\ At(line, d, "--")
        /\ LET w == SkipWord(line, d + 2)
           IN  /\ w > d + 2
               /\ \/ w = Len(line)
                  \/ w = Len(line) - 1 /\ Ch(line, w) \in {",", ";", "."}}

\* the while loop; i is the Python index of the line looked at
RECURSIVE m0_loop(_, _)
m0_loop(result, i) ==
    IF i >= Len(result) - 1 THEN result
    ELSE LET line == result[i + 1]
             D == M0Dashes(line)
             d == Greatest(D)
         IN  IF D # {}
             THEN m0_loop([result EXCEPT
                              ![i + 1] = Upto(line, d) \o "--",
                              ![i + 2] = From(line, d + 2) \o " " \o result[i + 2]],
                          i + 1)
             ELSE m0_loop(result, i + 1)

m0_emdash_trailing(lines) == m0_loop(lines, 0)

(***************************************************************************)
(* M1: AICTP isolation                                                     *)
(***************************************************************************)
AICTP_FORMULAS ==
    << "And now it came to pass that ",
       "And it came to pass that ",
       "For it came to pass that ",
       "Wherefore it came to pass that ",
       "And it came to pass, " >>

\* a faulty m1_line: the formula keeps its trailing white space
m1_line_no_rstrip(line) ==
    LET F == {i \in 1..Len(AICTP_FORMULAS) :
                 StartsWith(line, AICTP_FORMULAS[i]) /\ Len(line) > 42}
        formula == AICTP_FORMULAS[Least(F)]
    IN  IF F # {}
        THEN << formula, From(line, Len(formula)) >>
        ELSE << line >>

m1_line(line) ==
    LET F == {i \in 1..Len(AICTP_FORMULAS) :
                 StartsWith(line, AICTP_FORMULAS[i]) /\ Len(line) > 42}
        formula == AICTP_FORMULAS[Least(F)]
    IN  IF F # {}
        THEN << rstrip(formula), From(line, Len(formula)) >>
        ELSE IF /\ StartsWith(line, "And it came to pass ")
                /\ ~StartsWith(line, "And it came to pass that")
                /\ Len(line) > 40
        THEN << "And it came to pass", From(line, Len("And it came to pass ")) >>
        ELSE << line >>

m1_aictp(lines) == FlatMap(m1_line, lines)

(***************************************************************************)
(* M2: behold mid-line hinge                                               *)
(***************************************************************************)
\* behold[,;]?\s.+$ at offset b, ignoring case
BeholdAt(line, b) ==
    /\ AtI(line, b, "behold")
    /\ \/ /\ b + 6 < Len(line)
          /\ Ch(line, b + 6) \in {",", ";"}
          /\ IsSpace(line, b + 7)
          /\ b + 8 < Len(line)
       \/ IsSpace(line, b + 6) /\ b + 7 < Len(line)

\* (,\s+|;\s+|--\s*)(behold...) at offset n: the offset of group 3, or None
M2HingeAt(line, n) ==
    LET q == SkipSpace(line, n + 1)
        r == SkipSpace(line, n + 2)
    IN  IF (At(line, n, ",") \/ At(line, n, ";")) /\ q > n + 1 /\ BeholdAt(line, q)
        THEN q
        ELSE IF At(line, n, "--") /\ BeholdAt(line, r) THEN r
        ELSE None

\* a faulty m2_line: the length of the text from 'behold' on is not tested
m2_line_no_tail(line) ==
    LET N == {n \in 15..Len(line) : M2HingeAt(line, n) # None}
        n == Least(N)
        b == M2HingeAt(line, n)
    IN  IF N # {} /\ n >= 15
        THEN << Upto(line, n) \o rstrip(Slice(line, n, b)), From(line, b) >>
        ELSE << line >>

m2_line(line) ==
    LET N == {n \in 15..Len(line) : M2HingeAt(line, n) # None}
        n == Least(N)
        b == M2HingeAt(line, n)
    IN  IF N # {} /\ n >= 15 /\ Len(line) - b >= 15
        THEN << Upto(line, n) \o rstrip(Slice(line, n, b)), From(line, b) >>
        ELSE << line >>

m2_behold_hinge(lines) == FlatMap(m2_line, lines)

(***************************************************************************)
(* M3: yea trailing -> launching                                           *)
(***************************************************************************)
\* (yea,\s+.+)$ at offset q
YeaAt(line, q) ==
    At(line, q, "yea,") /\ IsSpace(line, q + 4) /\ Len(line) >= q + 6

\* ^(.{10,}?),\s+(yea,\s+.+)$ : the offsets n of the comma
M3Commas(line) ==
    {n \in 10..Len(line) :
        /\ At(line, n, ",")
        /\ SkipSpace(line, n + 1) > n + 1
        /\ YeaAt(line, SkipSpace(line, n + 1))}

\* ^(.{10,?})--\s*(yea,\s+.+)$ : Python reads {10,?} as the literal text
\* '{10' ',?' '}', so group 1 is any one character followed by {10,} or {10};
\* the end offset of group 1, or None
M3DashGroup(line) ==
    LET e == IF At(line, 1, "{10,}") THEN 6
             ELSE IF At(line, 1, "{10}") THEN 5 ELSE None
    IN  IF /\ e # None
           /\ At(line, e, "--")
           /\ YeaAt(line, SkipSpace(line, e + 2))
        THEN e ELSE None

\* a faulty m3_line: the whole line, not the prefix, is put before the comma
m3_line_group0(line) ==
    LET N == M3Commas(line)
        n == Least(N)
    IN  IF N # {}
        THEN << line \o ",", From(line, SkipSpace(line, n + 1)) >>
        ELSE << line >>

m3_line(line) ==
    LET N == M3Commas(line)
        n == Least(N)
        e == M3DashGroup(line)
    IN  IF N # {}
        THEN << Upto(line, n) \o ",", From(line, SkipSpace(line, n + 1)) >>
        ELSE IF e # None
        THEN << Upto(line, e) \o "--", From(line, SkipSpace(line, e + 2)) >>
        ELSE << line >>

m3_yea_trailing(lines) == FlatMap(m3_line, lines)

(***************************************************************************)
(* M4: insomuch split                                                      *)
(***************************************************************************)
\* ^(.{10,}?)\s+(insomuch\s+that\s+.+)$ ignoring case: the end offsets n of
\* group 1
M4Starts(line) ==
    {n \in 10..Len(line) :
        /\ IsSpace(line, n)
        /\ LET q == SkipSpace(line, n)
               r == SkipSpace(line, q + 8)
           IN  /\ AtI(line, q, "insomuch")
               /\ r > q + 8
               /\ AtI(line, r, "that")
               /\ IsSpace(line, r + 4)
               /\ Len(line) >= r + 6}

m4_line(line) ==
    LET N == M4Starts(line)
        n == Least(N)
    IN  IF N # {}
        THEN << Upto(line, n), From(line, SkipSpace(line, n)) >>
        ELSE << line >>

m4_insomuch(lines) == FlatMap(m4_line, lines)

(***************************************************************************)
(* M5: vocative split                                                      *)
(***************************************************************************)
\* VOCATIVE_ADDRESSES sorted by length, longest first (the sort is stable)
VOCATIVE_ADDRESSES ==
    << "captive daughter of Zion", "my beloved brethren", "house of Israel",
       "my brethren", "my people", "ye people", "my sons", "my son", "Lord" >>

RECURSIVE SkipCommaSpace(_, _)
SkipCommaSpace(s, p) ==
    IF p < Len(s) /\ Ch(s, p) \in {",", " "} THEN SkipCommaSpace(s, p + 1) ELSE p

\* [,!]?)\s+(.{15,})$ at offset e, the end of the address: the end offset of
\* group 1 and the start offset of group 2, or NoMatch
VocativeRest(line, e) ==
    LET g == IF e < Len(line) /\ Ch(line, e) \in {",", "!"} THEN e + 1 ELSE e
        w == SkipSpace(line, g) - g
        k == MinOf(w, Len(line) - g - 15)
    IN  IF k >= 1 THEN << g, g + k >> ELSE NoMatch

\* VOCATIVE_PAT.match(line)
VocativeMatch(line) ==
    LET r == SkipCommaSpace(line, 1)
        A == {i \in 1..Len(VOCATIVE_ADDRESSES) :
                 /\ AtI(line, r, VOCATIVE_ADDRESSES[i])
                 /\ VocativeRest(line, r + Len(VOCATIVE_ADDRESSES[i])) # NoMatch}
    IN  IF AtI(line, 0, "O") /\ r > 1 /\ A # {}
        THEN VocativeRest(line, r + Len(VOCATIVE_ADDRESSES[Least(A)]))
        ELSE NoMatch

m5_line(line) ==
    LET m == VocativeMatch(line)
    IN  IF Len(line) > 40 /\ m # NoMatch
        THEN << Upto(line, m[1]), From(line, m[2]) >>
        ELSE << line >>

m5_vocative(lines) == FlatMap(m5_line, lines)

(***************************************************************************)
(* M6: according-to split                                                  *)
(***************************************************************************)
\* ^(.{20,}?),\s+(according to\s.+)$ : the offsets n of the comma
M6Commas(line) ==
    {n \in 20..Len(line) :
        /\ At(line, n, ",")
        /\ LET q == SkipSpace(line, n + 1)
           IN  /\ q > n + 1
               /\ At(line, q, "according to")
               /\ IsSpace(line, q + 12)
               /\ Len(line) >= q + 14}

m6_line(line) ==
    LET N == M6Commas(line)
        n == Least(N)
    IN  IF Len(line) > 58 /\ N # {}
        THEN << Upto(line, n) \o ",", From(line, SkipSpace(line, n + 1)) >>
        ELSE << line >>

m6_according_to(lines) == FlatMap(m6_line, lines)

(***************************************************************************)
(* M7: speech verb + content word split                                    *)
(***************************************************************************)
\* SPEECH_VERBS after SPEECH_VERBS.sort(key=len, reverse=True) (stable)
SPEECH_VERBS ==
    << "sufficeth me to say", "prophesieth", "made known", "make known",
       "testifieth", "prophesied", "witnessing", "rehearsed", "testified",
       "witnessed", "speaketh", "prophesy", "preached", "teacheth",
       "declared", "testify", "declare", "witness", "written", "writeth",
       "showeth", "spoken", "preach", "taught", "showed", "spake", "spoke",
       "speak", "saith", "teach", "cried", "write", "said", "told", "tell",
       "show", "say", "cry" >>
VerbInitials == {"s", "p", "m", "t", "w", "r", "d", "c"}

RECIPIENT_WORDS == << "them", "him", "her", "you", "us", "me", "all" >>
RECIPIENT_DETERMINERS == << "the", "his", "my", "thy", "our" >>
CONTENT_WORDS ==
    << [word |-> "concerning", extra_check |-> "None"],
       [word |-> "how", extra_check |-> "None"],
       [word |-> "that", extra_check |-> "content_clause_check"],
       [word |-> "all things what", extra_check |-> "None"],
       [word |-> "all things that", extra_check |-> "None"] >>

\* \s*,?\s+(content_word\s) at offset r: the offset of the content word, or
\* None
ContentTail(line, r, cw) ==
    LET a == SkipSpace(line, r)
        comma == At(line, a, ",")
        c == IF comma THEN SkipSpace(line, a + 1) ELSE a
    IN  IF /\ (IF comma THEN c > a + 1 ELSE a > r)
           /\ AtI(line, c, cw)
           /\ IsSpace(line, c + Len(cw))
        THEN c ELSE None

\* the end offsets that RECIPIENT_PAT can reach from the end e of the verb,
\* in the order in which the matcher tries them; the last is e itself (the
\* recipient is optional)
RecipientEnds(line, e) ==
    LET w == SkipSpace(line, e)
        u == IF AtI(line, w, "unto") THEN w + 4
             ELSE IF AtI(line, w, "to") THEN w + 2 ELSE None
        x == SkipSpace(line, u)
        Fixed(i) == IF AtI(line, x, RECIPIENT_WORDS[i])
                    THEN << x + Len(RECIPIENT_WORDS[i]) >> ELSE <<>>
        Two(i) == LET y == SkipSpace(line, x + Len(RECIPIENT_DETERMINERS[i]))
                      z == SkipWord(line, y)
                  IN  IF /\ AtI(line, x, RECIPIENT_DETERMINERS[i])
                         /\ y > x + Len(RECIPIENT_DETERMINERS[i])
                         /\ z > y
                      THEN << z >> ELSE <<>>
        One == IF SkipWord(line, x) > x THEN << SkipWord(line, x) >> ELSE <<>>
    IN  IF w > e /\ u # None /\ x > u
        THEN Fixed(1) \o Fixed(2) \o Fixed(3) \o Fixed(4) \o Fixed(5)
             \o Fixed(6) \o Fixed(7)
             \o Two(1) \o Two(2) \o Two(3) \o Two(4) \o Two(5)
             \o One \o << e >>
        ELSE << e >>

\* the first member of seq that is not None (a matcher tries its
\* alternatives in order and keeps the first that succeeds), or None
FirstSome(seq) ==
    LET ok == {i \in 1..Len(seq) : seq[i] # None}
    IN  IF ok = {} THEN None ELSE seq[Least(ok)]

\* the first member of seq that is not NoMatch, or NoMatch
FirstMatch(seq) ==
    LET ok == {i \in 1..Len(seq) : seq[i] # NoMatch}
    IN  IF ok = {} THEN NoMatch ELSE seq[Least(ok)]

ContentTails(line, ends, cw) ==
    [i \in 1..Len(ends) |-> ContentTail(line, ends[i], cw)]

\* the pattern from the end e of a verb on: the offset of the content word
\* for the first recipient end from which the rest matches, or None
AfterVerb(line, e, cw) == FirstSome(ContentTails(line, RecipientEnds(line, e), cw))

\* the whole pattern at offset p: m.start(1) of the match that starts at p
SpeechMatchAt(line, p, cw) ==
    IF LowerCh(Ch(line, p)) \in VerbInitials
    THEN FirstSome([i \in 1..Len(SPEECH_VERBS) |->
                       IF AtI(line, p, SPEECH_VERBS[i])
                       THEN AfterVerb(line, p + Len(SPEECH_VERBS[i]), cw)
                       ELSE None])
    ELSE None

\* re.search(pat, line, re.IGNORECASE): m.start(1) of the leftmost match
SpeechSearch(line, cw) ==
    FirstSome([q \in 1..Len(line) |-> SpeechMatchAt(line, q - 1, cw)])

\* a faulty split: fragments under 18 characters are accepted
SpeechSplitAt_no_min(line, c, idx) ==
    LET left == RStripSet(Upto(line, idx), {",", " "})
        right == From(line, idx)
    IN  IF idx = None THEN NoMatch
        ELSE IF /\ c.extra_check = "content_clause_check"
                /\ ~StartsContentClause(line, MinOf(idx + 5, Len(line)))
        THEN NoMatch
        ELSE << left, right >>

\* the split at the content word found at idx, or NoMatch
SpeechSplitAt(line, c, idx) ==
    LET left == RStripSet(Upto(line, idx), {",", " "})
        right == From(line, idx)
    IN  IF idx = None THEN NoMatch
        ELSE IF /\ c.extra_check = "content_clause_check"
                /\ ~StartsContentClause(line, MinOf(idx + 5, Len(line)))
        THEN NoMatch
        ELSE IF Len(left) >= 18 /\ Len(right) >= 18 THEN << left, right >>
        ELSE NoMatch

\* one round of the loop over the content words: the split, or NoMatch
SpeechSplitFor(line, c) == SpeechSplitAt(line, c, SpeechSearch(line, c.word))

_find_speech_content_split(line) ==
    FirstMatch([i \in 1..Len(CONTENT_WORDS) |-> SpeechSplitFor(line, CONTENT_WORDS[i])])

\* the lines for a split that may be NoMatch
OrLine(split_, line) == IF split_ # NoMatch THEN split_ ELSE << line >>

m7_line(line) ==
    IF Len(line) < 48 THEN << line >>
    ELSE OrLine(_find_speech_content_split(line), line)

m7_speech_content(lines) == FlatMap(m7_line, lines)

(***************************************************************************)
(* M8: ", and [subject pronoun]" split                                     *)
(***************************************************************************)
AND_PRONOUNS == << "I ", "he ", "she ", "they ", "we ", "ye ", "it ", "thou " >>

\* the offsets of ', and ' (re.findall: the occurrences cannot overlap)
CommaAnds(line) == {p \in 0..(Len(line) - 1) : At(line, p, ", and ")}

\* _AND_PRONOUN_PAT.search(line): m.start(), or None
AndPronounSearch(line) ==
    LET P == {p \in CommaAnds(line) :
                 \E i \in 1..Len(AND_PRONOUNS) : At(line, p + 6, AND_PRONOUNS[i])}
    IN  IF P = {} THEN None ELSE Least(P)

\* a faulty m8_line: triads are not skipped
m8_line_no_triad(line) ==
    LET start == AndPronounSearch(line)
    IN  IF /\ 45 <= Len(line) /\ Len(line) <= 70
           /\ start # None
           /\ start >= 18
           /\ (Len(line) - start - 1) >= 18
        THEN << Upto(line, start + 1), From(line, start + 2) >>
        ELSE << line >>

m8_line(line) ==
    LET start == AndPronounSearch(line)
    IN  IF 45 <= Len(line) /\ Len(line) <= 70
        THEN IF Cardinality(CommaAnds(line)) >= 2 THEN << line >>
             ELSE IF /\ start # None
                     /\ start >= 18
                     /\ (Len(line) - start - 1) >= 18
             THEN << Upto(line, start + 1), From(line, start + 2) >>
             ELSE << line >>
        ELSE << line >>

\* a faulty m8_and_pronoun: the loop returns after the first line, and the
\* other lines are passed on as they are
m8_and_pronoun_first(lines) ==
    IF lines = <<>> THEN <<>> ELSE m8_line(Head(lines)) \o Tail(lines)

m8_and_pronoun(lines) == FlatMap(m8_line, lines)

(***************************************************************************)
(* M9: subject-predicate split at modal verbs                              *)
(***************************************************************************)
MODALS ==
    << "shall ", "will ", "should ", "would ", "must ", "can ", "could ",
       "may ", "might " >>
SPEECH_NEAR == << "said", "saith", "spake", "spoke", "say ", "says " >>

\* MODALS_PAT.finditer(line): the offsets m.start(), in order
ModalStarts(line) ==
    {p \in 0..(Len(line) - 1) :
        /\ WordBoundary(line, p)
        /\ \E i \in 1..Len(MODALS) : At(line, p, MODALS[i])}

\* SPEECH_NEAR_PAT.search(w)
SpeechNear(w) ==
    \E p \in 0..(Len(w) - 1) : \E i \in 1..Len(SPEECH_NEAR) : At(w, p, SPEECH_NEAR[i])

Contains(w, lit) == \E p \in 0..(Len(w) - 1) : At(w, p, lit)

\* the guards of the loop body for the modal at offset pos
M9Guards(line, pos) ==
    LET left == rstrip(Upto(line, pos))
        right == From(line, pos)
        near == Slice(line, MaxOf(0, pos - 10), pos)
    IN  /\ Len(left) >= 30
        /\ Len(right) >= 20
        /\ ~Contains(Slice(line, MaxOf(0, pos - 5), pos), ",")
        /\ ~Contains(near, "that ")
        /\ ~SpeechNear(Slice(line, MaxOf(0, pos - 15), pos))
        /\ ~(Contains(near, "save ") \/ Contains(near, " if "))

\* the offset at which M9 splits the line, or None
M9SplitPos(line) ==
    LET P == {pos \in ModalStarts(line) : M9Guards(line, pos)}
    IN  IF Len(line) <= 70 \/ P = {} THEN None ELSE Least(P)

m9_line(line) ==
    LET pos == M9SplitPos(line)
    IN  IF pos = None THEN << line >>
        ELSE << rstrip(Upto(line, pos)), From(line, pos) >>

m9_subject_predicate(lines) == FlatMap(m9_line, lines)

(***************************************************************************)
(* M10: long-line pattern-priority split                                   *)
(***************************************************************************)
threshold == 70
min_left == 18
min_right == 15
prep_threshold == 75

\* pos_fn of _best_pos: m.end() for 'after', m.start() + 1 otherwise
pos_fn(btype, m) == IF btype = "after" THEN m.end ELSE m.start + 1

\* a faulty loop: of two positions at the same distance the later is kept
_best_pos_loop_last(line, matches, btype, i, best, best_dist) ==
    LET ok == {k \in i..Len(matches) :
                  /\ pos_fn(btype, matches[k]) >= min_left
                  /\ Len(line) - pos_fn(btype, matches[k]) >= min_right}
        dist(k) == Abs(2 * pos_fn(btype, matches[k]) - Len(line))
        nearest == {k \in ok : \A j \in ok : dist(k) <= dist(j)}
    IN  IF ok = {} THEN best ELSE pos_fn(btype, matches[Greatest(nearest)])

\* the loop of _best_pos; dist is kept doubled: 2 * abs(pos - len(line) / 2)
RECURSIVE _best_pos_loop(_, _, _, _, _, _)
_best_pos_loop(line, matches, btype, i, best, best_dist) ==
    IF i > Len(matches) THEN best
    ELSE LET pos == pos_fn(btype, matches[i])
             dist == Abs(2 * pos - Len(line))
         IN  IF /\ pos >= min_left
                /\ (Len(line) - pos) >= min_right
                /\ (best = None \/ dist < best_dist)
             THEN _best_pos_loop(line, matches, btype, i + 1, pos, dist)
             ELSE _best_pos_loop(line, matches, btype, i + 1, best, best_dist)

\* a faulty _best_pos: the minimum half lengths are not enforced
_best_pos_no_min(line, matches, btype) ==
    LET dist(i) == Abs(2 * pos_fn(btype, matches[i]) - Len(line))
        best == {i \in 1..Len(matches) : \A j \in 1..Len(matches) : dist(i) <= dist(j)}
    IN  IF matches = <<>> THEN None ELSE pos_fn(btype, matches[Least(best)])

_best_pos(line, matches, btype) ==
    _best_pos_loop(line, matches, btype, 1, None, 0)

\* Python's truth of a position: None and 0 are false
Truthy(pos) == pos # None /\ pos # 0

\* a faulty loop over a pattern list: the position closest to the centre
\* over all patterns decides, whatever the order of the list
TryPatterns_closest(line, pats, i) ==
    LET pos(k) == _best_pos(line, finditer(pats[k], line), pats[k].btype)
        ok == {k \in i..Len(pats) : Truthy(pos(k))}
        best == {k \in ok : \A j \in ok : Abs(2 * pos(k) - Len(line))
                                             <= Abs(2 * pos(j) - Len(line))}
    IN  IF ok = {} THEN None ELSE pos(Least(best))

\* the loop over a pattern list: the first pattern with matches and a
\* position decides
RECURSIVE TryPatterns(_, _, _)
TryPatterns(line, pats, i) ==
    IF i > Len(pats) THEN None
    ELSE LET matches == finditer(pats[i], line)
             pos == _best_pos(line, matches, pats[i].btype)
         IN  IF matches # <<>> /\ Truthy(pos) THEN pos
             ELSE TryPatterns(line, pats, i + 1)

\* the matches of the bare 'that' followed by a clause starter
RECURSIVE SelectValid(_, _)
SelectValid(line, matches) ==
    IF matches = <<>> THEN <<>>
    ELSE (IF StartsContentClause(line, Head(matches).end)
          THEN <<Head(matches)>> ELSE <<>>)
         \o SelectValid(line, Tail(matches))

FallbackBreak(line) ==
    LET prep == TryPatterns(line, BREAK_PATTERNS_NOCOMMA, 1)
        comma == _best_pos(line, finditer(ANY_COMMA, line), "before")
    IN  IF Len(line) > prep_threshold
        THEN IF prep # None THEN prep
             ELSE IF Truthy(comma) THEN comma ELSE None
        ELSE None

_find_long_line_break(line, thr) ==
    IF Len(line) <= thr THEN None
    ELSE LET comma == TryPatterns(line, BREAK_PATTERNS_COMMA, 1)
             valid == SelectValid(line, finditer(BARE_THAT, line))
             that == _best_pos(line, valid, "before")
         IN  IF comma # None THEN comma
             ELSE IF valid # <<>> /\ Truthy(that) THEN that
             ELSE FallbackBreak(line)

\* a faulty split: the right part is cut from the start of the line
m10_parts_whole(line, pos) == << rstrip(Upto(line, pos)), lstrip(line) >>

\* the two parts of a split at pos
m10_parts(line, pos) == << rstrip(Upto(line, pos)), lstrip(From(line, pos)) >>

\* a faulty test: no part is handed to a recursive call
m10_recurse_never(part, thr) == FALSE

\* the part is handed to a recursive call
m10_recurse(part, thr) == Len(part) > thr

RECURSIVE m10_split_long(_, _)
m10_split_line(line, thr) ==
    LET pos == _find_long_line_break(line, thr)
        part == m10_parts(line, pos)
        Sub(x) == IF m10_recurse(x, thr) THEN m10_split_long(<<x>>, thr) ELSE <<x>>
    IN  IF Len(line) <= thr THEN <<line>>
        ELSE IF Truthy(pos) THEN Sub(part[1]) \o Sub(part[2])
        ELSE <<line>>

m10_split_long(lines, thr) ==
    IF lines = <<>> THEN <<>>
    ELSE m10_split_line(Head(lines), thr) \o m10_split_long(Tail(lines), thr)

(***************************************************************************)
(* M11: speech frame split                                                 *)
(***************************************************************************)
FRAME_PRONOUNS == << "he", "she", "they", "I" >>
FRAME_SUBJECTS ==
    << "God", "the Lord God", "the Lord", "Christ", "the Messiah",
       "the Spirit", "he", "she", "they", "I" >>
FRAME_AUX == << "hath ", "has ", "had " >>
FRAME_VERBS == << "said", "saith", "spake", "declared" >>

\* the end offsets of the alternatives of the list alts that are at offset
\* p, in list order
RECURSIVE AltEnds(_, _, _, _)
AltEnds(line, p, alts, i) ==
    IF i > Len(alts) THEN <<>>
    ELSE (IF At(line, p, alts[i]) THEN << p + Len(alts[i]) >> ELSE <<>>)
         \o AltEnds(line, p, alts, i + 1)

\* (?:said|saith)\s+(?:he|she|they|I), at offset a: the offsets after the
\* comma
InvertedFrame(line, a) ==
    LET v == AltEnds(line, a, << "said", "saith" >>, 1)
        E(i) == AltEnds(line, SkipSpace(line, v[i]), FRAME_PRONOUNS, 1)
    IN  {e + 1 : e \in {x \in UNION {{E(i)[j] : j \in 1..Len(E(i))} :
                                       i \in {k \in 1..Len(v) :
                                                 SkipSpace(line, v[k]) > v[k]}} :
                           At(line, x, ",")}}

\* (?:God|...|I)\s+(?:hath |has |had )?(?:said|saith|spake|declared), at
\* offset a: the offsets after the comma
NormalFrame(line, a) ==
    LET subj == AltEnds(line, a, FRAME_SUBJECTS, 1)
        VerbEnds(w) ==
            LET aux == AltEnds(line, w, FRAME_AUX, 1)
                from == {w} \cup {aux[i] : i \in 1..Len(aux)}
            IN  UNION {LET ve == AltEnds(line, x, FRAME_VERBS, 1)
                       IN  {ve[i] : i \in 1..Len(ve)} : x \in from}
    IN  {e + 1 : e \in {x \in UNION {VerbEnds(SkipSpace(line, subj[i])) :
                                       i \in {k \in 1..Len(subj) :
                                                 SkipSpace(line, subj[k]) > subj[k]}} :
                           At(line, x, ",")}}

\* _SPEECH_FRAME_PAT.match(line): the end offset of group 1 and the start
\* offset of group 2 for the frame that starts at offset a, or NoMatch.  At
\* one offset at most one frame matches, so the order of the alternatives
\* does not choose between two results.
FrameAt(line, a) ==
    LET K == InvertedFrame(line, a) \cup NormalFrame(line, a)
        k == Least(K)
        w == SkipSpace(line, k) - k
        j == MinOf(w, Len(line) - k - 10)
    IN  IF K # {} /\ j >= 1 THEN << k, k + j >> ELSE NoMatch

m11_line(line) ==
    LET A == {a \in 1..(Len(line) - 1) :
                 Ch(line, a) \in {"s", "G", "t", "C", "h", "I"}
                 /\ FrameAt(line, a) # NoMatch}
        m == FrameAt(line, Greatest(A))
    IN  IF A # {} THEN << Upto(line, m[1]), From(line, m[2]) >>
        ELSE << line >>

m11_speech_frame(lines) == FlatMap(m11_line, lines)

(***************************************************************************)
(* M12: "in [gerund]" split                                                *)
(***************************************************************************)
\* \w+ing\b.+$ at offset r
GerundAt(line, r) ==
    LET z == SkipWord(line, r)
    IN  z - r >= 4 /\ Slice(line, z - 3, z) = "ing" /\ z < Len(line)

\* ^(.{15,}?)\s+(in\s+\w+ing\b.+)$ : the end offsets n of group 1
M12Starts(line) ==
    {n \in 15..Len(line) :
        /\ IsSpace(line, n)
        /\ LET q == SkipSpace(line, n)
               r == SkipSpace(line, q + 2)
           IN  At(line, q, "in") /\ r > q + 2 /\ GerundAt(line, r)}

m12_line(line) ==
    LET N == M12Starts(line)
        n == Least(N)
        q == SkipSpace(line, n)
    IN  IF N # {} /\ Len(line) - q >= 10
        THEN << Upto(line, n), From(line, q) >>
        ELSE << line >>

m12_in_gerund(lines) == FlatMap(m12_line, lines)

(***************************************************************************)
(* M13: "made an end of [gerund]" split                                    *)
(***************************************************************************)
\* ^(.+made an end)\s+(of\s+\w+ing\b.+)$ : the offsets a of 'made an end'
M13Starts(line) ==
    {a \in 1..Len(line) :
        /\ At(line, a, "made an end")
        /\ LET w == SkipSpace(line, a + 11)
               r == SkipSpace(line, w + 2)
           IN  /\ w > a + 11
               /\ At(line, w, "of")
               /\ r > w + 2
               /\ GerundAt(line, r)}

m13_line(line) ==
    LET A == M13Starts(line)
        a == Greatest(A)
    IN  IF A # {}
        THEN << Upto(line, a + 11), From(line, SkipSpace(line, a + 11)) >>
        ELSE << line >>

m13_end_of_gerund(lines) == FlatMap(m13_line, lines)

(***************************************************************************)
(* M14: inverted conditional consequence split                             *)
(***************************************************************************)
PRONOUNS_SET == << "we", "they", "he", "I", "ye", "she", "it", "thou" >>
MODALS_SET ==
    << "shall", "should", "would", "will", "must", "could", "may", "might" >>

\* an alternative of alts at offset p, followed by \b: the end offsets
WordEnds(s, p, alts) ==
    {p + Len(alts[i]) : i \in {k \in 1..Len(alts) :
        At(s, p, alts[k]) /\ WordBoundary(s, p + Len(alts[k]))}}

\* re.match(r'.*\bhad\s+PRONOUNS\b', head)
HadPronoun(head) ==
    \E p \in 0..(Len(head) - 1) :
        /\ WordBoundary(head, p)
        /\ At(head, p, "had")
        /\ SkipSpace(head, p + 3) > p + 3
        /\ WordEnds(head, SkipSpace(head, p + 3), PRONOUNS_SET) # {}

\* re.search(r'\b(PRONOUNS)\s+(MODALS)\b', rest): m.start(), or None
ConsequenceSearch(rest) ==
    LET P == {p \in 0..(Len(rest) - 1) :
                 /\ WordBoundary(rest, p)
                 /\ \E i \in 1..Len(PRONOUNS_SET) :
                        LET e == p + Len(PRONOUNS_SET[i])
                        IN  /\ At(rest, p, PRONOUNS_SET[i])
                            /\ SkipSpace(rest, e) > e
                            /\ WordEnds(rest, SkipSpace(rest, e), MODALS_SET) # {}}
    IN  IF P = {} THEN None ELSE Least(P)

m14_line(line) ==
    LET m == ConsequenceSearch(From(line, 25))
        split_pos == 25 + m
        left == rstrip(Upto(line, split_pos))
        right == From(line, split_pos)
    IN  IF Len(line) < 40 THEN << line >>
        ELSE IF ~HadPronoun(Upto(line, MinOf(30, Len(line)))) THEN << line >>
        ELSE IF /\ m # None
                /\ ~Contains(Slice(line, split_pos - 5, split_pos), ",")
                /\ Len(left) >= 20
                /\ Len(right) >= 15
        THEN << left, right >>
        ELSE << line >>

m14_inverted_conditional(lines) == FlatMap(m14_line, lines)

(***************************************************************************)
(* M15: passive verb + directional prep split                              *)
(***************************************************************************)
MOTION_VERBS ==
    {"scattered", "driven", "led", "turned", "sent", "taken", "cast",
     "placed", "put"}
BE_VERBS == << "is", "are", "was", "were", "been", "be" >>
PASSIVE_PREPS ==
    << "unto", "upon", "for", "from", "by", "among", "against", "into",
       "out of" >>

\* \w+(?:ed|en|t|wn) is the whole word w
IsParticiple(w) ==
    LET n == Len(w)
    IN  \/ n >= 3 /\ Slice(w, n - 2, n) \in {"ed", "en", "wn"}
        \/ n >= 2 /\ Ch(w, n - 1) = "t"

\* _PASSIVE_PREP_PAT from the auxiliary on, at offset a: the offsets of the
\* participle, of its end and of the preposition, or NoMatch
PassiveAt(line, a) ==
    LET be == AltEnds(line, a, BE_VERBS, 1)
        Try(e) ==
            LET w == SkipSpace(line, e)
                z == SkipWord(line, w)
                x == SkipSpace(line, z)
                pe == AltEnds(line, x, PASSIVE_PREPS, 1)
            IN  IF /\ w > e
                   /\ ~(At(line, w, "not") /\ WordBoundary(line, w + 3))
                   /\ z > w
                   /\ IsParticiple(Slice(line, w, z))
                   /\ x > z
                   /\ \E i \in 1..Len(pe) :
                          IsSpace(line, pe[i]) /\ Len(line) >= pe[i] + 2
                THEN << w, z, x >> ELSE NoMatch
        ok == {i \in 1..Len(be) : Try(be[i]) # NoMatch}
    IN  IF ok = {} THEN NoMatch ELSE Try(be[Least(ok)])

m15_line(line) ==
    LET A == {a \in 1..(Len(line) - 1) :
                 Ch(line, a) \in {"i", "a", "w", "b"} /\ PassiveAt(line, a) # NoMatch}
        m == PassiveAt(line, Greatest(A))
        participle == Slice(line, m[1], m[2])
        left == Upto(line, m[2])
        right == From(line, m[3])
    IN  IF Len(line) < 50 \/ A = {} THEN << line >>
        ELSE IF /\ participle \notin MOTION_VERBS
                /\ Len(left) >= 18
                /\ Len(right) >= 15
        THEN << left, right >>
        ELSE << line >>

m15_passive_prep(lines) == FlatMap(m15_line, lines)

(***************************************************************************)
(* M16: deity appositive split                                             *)
(***************************************************************************)
\* _DEITY_TITLES after _DEITY_TITLES.sort(key=len, reverse=True) (stable)
DEITY_TITLES ==
    << "the rock of my righteousness", "the Mighty One of Israel",
       "the Lord God Omnipotent", "the Mighty One of Jacob",
       "the Holy One of Israel", "the Everlasting Father",
       "The Everlasting Father", "the Lord God Almighty",
       "the Lord Jesus Christ", "the Prince of Peace", "The Prince of Peace",
       "Holy One of Israel", "the God of Abraham", "the Eternal Father",
       "the king of heaven", "the God of Israel", "the Most High God",
       "the Lord of Hosts", "the Great Creator", "the Eternal Judge",
       "the Good Shepherd", "the God of Isaac", "the God of Jacob",
       "the true Messiah", "the Lamb of God", "the Holy Spirit",
       "the Son of God", "Eternal Father", "the Mighty One",
       "the Mighty God", "The Mighty God", "the Holy Ghost",
       "their Redeemer", "God of Israel", "Most High God", "the Most High",
       "Lord of Hosts", "your Redeemer", "the Lord God", "the Holy One",
       "the Almighty", "the Redeemer", "the Mediator", "Jesus Christ",
       "our Redeemer", "thy Redeemer", "Lamb of God", "the Messiah",
       "the Creator", "my Redeemer", "Son of God", "the Savior",
       "the Father", "thy Savior", "their God", "my Savior", "Lord God",
       "the Lord", "the Lamb", "your God", "the Son", "Messiah", "our God",
       "thy God", "his God", "Christ", "my God", "Jesus", "God" >>
TitleInitials ==
    {"t", "T", "H", "E", "G", "M", "L", "y", "J", "o", "S", "m", "h", "C"}

\* the titles (as indexes) at offset p
TitlesAt(line, p) ==
    IF p < Len(line) /\ Ch(line, p) \in TitleInitials
    THEN {i \in 1..Len(DEITY_TITLES) : At(line, p, DEITY_TITLES[i])}
    ELSE {}

\* \b(title),\s+((title)\b.*)$ with the first title at offset a: the end
\* offset of the first title and the offset of the second, or NoMatch
AppositiveAt(line, a) ==
    LET ok == {i \in TitlesAt(line, a) :
                  LET e == a + Len(DEITY_TITLES[i])
                      q == SkipSpace(line, e + 1)
                  IN  /\ At(line, e, ",")
                      /\ q > e + 1
                      /\ \E j \in TitlesAt(line, q) :
                             WordBoundary(line, q + Len(DEITY_TITLES[j]))}
        e == a + Len(DEITY_TITLES[Least(ok)])
    IN  IF WordBoundary(line, a) /\ ok # {}
        THEN << e, SkipSpace(line, e + 1) >> ELSE NoMatch

\* _DEITY_APPOS_PAT.match(current): the lazy .*? takes the leftmost offset
DeityMatch(current) ==
    LET A == {a \in 0..(Len(current) - 1) : AppositiveAt(current, a) # NoMatch}
    IN  IF A = {} THEN NoMatch ELSE AppositiveAt(current, Least(A))

\* the while loop of m16_deity_appositive
RECURSIVE m16_loop(_)
m16_loop(current) ==
    LET m == DeityMatch(current)
    IN  IF m = NoMatch THEN << current >>
        ELSE << Upto(current, m[1]) \o "," >> \o m16_loop(From(current, m[2]))

\* a faulty m16_line: lines under 30 characters are split too
m16_line_no_min(line) == m16_loop(line)

m16_line(line) == IF Len(line) < 30 THEN << line >> ELSE m16_loop(line)

m16_deity_appositive(lines) == FlatMap(m16_line, lines)

(***************************************************************************)
(* PIPELINE                                                                *)
(***************************************************************************)
\* a faulty PIPELINE: M10 runs before M9
PIPELINE_m10_first ==
    << "M0", "M1", "M2", "M3", "M4", "M5", "M6", "M7", "M8", "M10", "M9",
       "M11", "M12", "M13", "M14", "M15", "M16" >>

PIPELINE ==
    << "M0", "M1", "M2", "M3", "M4", "M5", "M6", "M7", "M8", "M9", "M10",
       "M11", "M12", "M13", "M14", "M15", "M16" >>

\* fn(lines) for the entry of PIPELINE named name
Pass(name, lines) ==
    CASE name = "M0" -> m0_emdash_trailing(lines)
      [] name = "M1" -> m1_aictp(lines)
      [] name = "M2" -> m2_behold_hinge(lines)
      [] name = "M3" -> m3_yea_trailing(lines)
      [] name = "M4" -> m4_insomuch(lines)
      [] name = "M5" -> m5_vocative(lines)
      [] name = "M6" -> m6_according_to(lines)
      [] name = "M7" -> m7_speech_content(lines)
      [] name = "M8" -> m8_and_pronoun(lines)
      [] name = "M9" -> m9_subject_predicate(lines)
      [] name = "M10" -> m10_split_long(lines, threshold)
      [] name = "M11" -> m11_speech_frame(lines)
      [] name = "M12" -> m12_in_gerund(lines)
      [] name = "M13" -> m13_end_of_gerund(lines)
      [] name = "M14" -> m14_inverted_conditional(lines)
      [] name = "M15" -> m15_passive_prep(lines)
      [] name = "M16" -> m16_deity_appositive(lines)

\* the loop of process_verse from entry i of PIPELINE on
RECURSIVE RunPipeline(_, _)
RunPipeline(i, lines) ==
    IF i > Len(PIPELINE) THEN lines
    ELSE RunPipeline(i + 1, Pass(PIPELINE[i], lines))

process_verse(content_lines_) == RunPipeline(1, content_lines_)

(***************************************************************************)
(* process_file: blocks, markers, reassembly                               *)
(***************************************************************************)
\* the offsets of sep in s
Occurrences(s, sep) == {p \in 0..(Len(s) - Len(sep)) : At(s, p, sep)}

\* s.split(sep): the occurrences of sep are taken from left to right and do
\* not overlap
RECURSIVE split(_, _)
split(s, sep) ==
    LET O == Occurrences(s, sep)
        p == Least(O)
    IN  IF O = {} THEN << s >>
        ELSE << Upto(s, p) >> \o split(From(s, p + Len(sep)), sep)

\* sep.join(parts)
RECURSIVE join(_, _)
join(parts, sep) ==
    IF parts = <<>> THEN ""
    ELSE IF Len(parts) = 1 THEN parts[1]
    ELSE parts[1] \o sep \o join(Tail(parts), sep)

(***************************************************************************)
(* bom_abbreviations.py: the abbreviations of the books and the parser of  *)
(* verse references                                                        *)
(***************************************************************************)
\* the dict ABBREV_TO_ID, as its items in insertion order
ABBREV_TO_ID ==
    << << "1 Ne", "1nephi" >>, << "2 Ne", "2nephi" >>, << "3 Ne", "3nephi" >>,
       << "4 Ne", "4nephi" >>, << "Jac", "jacob" >>, << "Enos", "enos" >>,
       << "Jar", "jarom" >>, << "Omni", "omni" >>, << "WoM", "words-of-mormon" >>,
       << "Mos", "mosiah" >>, << "Al", "alma" >>, << "Hel", "helaman" >>,
       << "Morm", "mormon" >>, << "Eth", "ether" >>, << "Ether", "ether" >>,
       << "Moro", "moroni" >> >>

\* the items whose key has n characters, in insertion order
RECURSIVE ItemsOfLen(_, _)
ItemsOfLen(items, n) ==
    IF items = <<>> THEN <<>>
    ELSE (IF Len(Head(items)[1]) = n THEN << Head(items) >> ELSE <<>>)
         \o ItemsOfLen(Tail(items), n)

\* sorted(ABBREV_TO_ID.keys(), key=len, reverse=True), each key with its
\* book: the sort is stable, so keys of one length keep their order
RECURSIVE SortedFrom(_)
SortedFrom(n) ==
    IF n = 0 THEN <<>> ELSE ItemsOfLen(ABBREV_TO_ID, n) \o SortedFrom(n - 1)
_SORTED_ABBREVS ==
    SortedFrom(Greatest({Len(ABBREV_TO_ID[i][1]) : i \in 1..Len(ABBREV_TO_ID)}))

\* a faulty lookup: the abbreviations are tried in the order of the dict
FindBook_unsorted(ref) ==
    LET M == {i \in 1..Len(ABBREV_TO_ID) : StartsWith(ref, ABBREV_TO_ID[i][1])}
    IN  IF M = {} THEN [book_id |-> "", rest |-> ref]
        ELSE [book_id |-> ABBREV_TO_ID[Least(M)][2],
              rest |-> strip(From(ref, Len(ABBREV_TO_ID[Least(M)][1])))]

\* the loop over _SORTED_ABBREVS: book_id ("" for None) and rest
FindBook(ref) ==
    LET M == {i \in 1..Len(_SORTED_ABBREVS) : StartsWith(ref, _SORTED_ABBREVS[i][1])}
    IN  IF M = {} THEN [book_id |-> "", rest |-> ref]
        ELSE [book_id |-> _SORTED_ABBREVS[Least(M)][2],
              rest |-> strip(From(ref, Len(_SORTED_ABBREVS[Least(M)][1])))]

\* s.split(sep, 1)
SplitOnce(s, sep) ==
    LET O == Occurrences(s, sep)
    IN  IF O = {} THEN << s >>
        ELSE << Upto(s, Least(O)), From(s, Least(O) + Len(sep)) >>

\* int(s): white space around the number is ignored, a sign may lead it,
\* and single underscores may stand between digits; anything else raises
\* ValueError (ok is FALSE)
DigitValue(c) == CHOOSE d \in 0..9 : Ch("0123456789", d) = c
IsDigits(s) ==
    /\ Len(s) > 0
    /\ IsDigit(s, 0)
    /\ IsDigit(s, Len(s) - 1)
    /\ \A p \in 0..(Len(s) - 1) :
          \/ IsDigit(s, p)
          \/ Ch(s, p) = "_" /\ IsDigit(s, p + 1)
RECURSIVE DigitsValue(_, _)
DigitsValue(s, acc) ==
    IF s = "" THEN acc
    ELSE IF Ch(s, 0) = "_" THEN DigitsValue(From(s, 1), acc)
    ELSE DigitsValue(From(s, 1), 10 * acc + DigitValue(Ch(s, 0)))
int(s) ==
    LET t == strip(s)
        signed == Len(t) > 0 /\ Ch(t, 0) \in {"+", "-"}
        body == IF signed THEN From(t, 1) ELSE t
    IN  IF IsDigits(body)
        THEN [ok |-> TRUE,
              val |-> IF signed /\ Ch(t, 0) = "-"
                      THEN 0 - DigitsValue(body, 0) ELSE DigitsValue(body, 0)]
        ELSE [ok |-> FALSE, val |-> 0]

\* the triples that one segment of the verse list adds to results
SegmentTriples(book_id, chapter, segment_) ==
    LET segment == strip(segment_)
        range_parts == SplitOnce(segment, "-")
        start == int(range_parts[1])
        end == int(range_parts[2])
        one == int(segment)
    IN  IF segment = "" THEN <<>>
        ELSE IF Occurrences(segment, "-") # {}
        THEN IF start.ok /\ end.ok /\ start.val <= end.val
             THEN [k \in 1..(end.val - start.val + 1) |->
                      << book_id, chapter, start.val + k - 1 >>]
             ELSE <<>>
        ELSE IF one.ok THEN << << book_id, chapter, one.val >> >> ELSE <<>>

\* the state of process_file, process_verse, m10_split_long, print_stats
\* and parse_bom_ref
VARIABLES
    pc,              \* position in the program
    content,         \* process_file: the text read from input_path
    blocks,          \* process_file: content.strip().split('\n\n')
    block_i,         \* process_file: index of the block of the for loop
    verse_marker,    \* process_file: marker of the block, "" for None
    verse_in,        \* the content lines handed to process_verse
    content_lines,   \* process_verse: the lines after the passes so far
    prev_lines,      \* the lines before the last pass applied
    pass_i,          \* process_verse: index into PIPELINE of the next pass
    output_blocks,   \* process_file: the blocks written so far
    output,          \* process_file: the text written to output_path
    stack,           \* m10_split_long: the lines still to be visited
    result,          \* m10_split_long: the result list
    stats,           \* print_stats: the numbers and lines of the report
    ref_str,         \* parse_bom_ref: the reference string
    ref,             \* parse_bom_ref: book_id, rest, chapter, segments left
    results          \* parse_bom_ref: the list of triples

\* re.match(r'^\d+:\d+$', s)
IsMarker(s) ==
    LET O == Occurrences(s, ":")
        c == Least(O)
    IN  /\ Cardinality(O) = 1
        /\ c >= 1
        /\ c <= Len(s) - 2
        /\ \A p \in 0..(Len(s) - 1) : p # c => IsDigit(s, p)

\* a faulty MarkerOf: verse_marker is not reset for a block without marker
\* and keeps the marker of the block before
MarkerOf_sticky(block) ==
    LET first == strip(split(block, "\n")[1])
    IN  IF IsMarker(first) THEN first ELSE verse_marker

\* the marker of a block, or "" for a block without marker
MarkerOf(block) ==
    LET first == strip(split(block, "\n")[1])
    IN  IF IsMarker(first) THEN first ELSE ""

\* a faulty ContentOf: the first line of a block is dropped, marker or not
ContentOf_tail(block) == Tail(split(block, "\n"))

\* the content lines of a block
ContentOf(block) ==
    LET block_lines == split(block, "\n")
    IN  IF MarkerOf(block) # "" THEN Tail(block_lines) ELSE block_lines

\* the block written for a marker and the lines of the pipeline
OutputBlock(marker, lines) ==
    IF marker # "" THEN marker \o "\n" \o join(lines, "\n") ELSE join(lines, "\n")

(***************************************************************************)
(* print_stats: the report on the output.  A printed line of the report    *)
(* is modelled by the numbers (and, for the listing, the lines) it shows.  *)
(***************************************************************************)
\* the content lines of the output, right-stripped: the lines that are
\* neither blank nor a verse marker
KeepsLine(l) == strip(l) # "" /\ ~IsMarker(strip(l))
out_lines_of(output_) ==
    LET kept == SelectSeq(split(output_, "\n"), KeepsLine)
    IN  [i \in 1..Len(kept) |-> rstrip(kept[i])]

\* sorted(len(l) for l in out_lines)
RECURSIVE InsertSorted(_, _)
InsertSorted(sorted_, n) ==
    IF sorted_ = <<>> THEN << n >>
    ELSE IF n <= Head(sorted_) THEN << n >> \o sorted_
    ELSE << Head(sorted_) >> \o InsertSorted(Tail(sorted_), n)
RECURSIVE SortedLengths(_)
SortedLengths(out_lines) ==
    IF out_lines = <<>> THEN <<>>
    ELSE InsertSorted(SortedLengths(Tail(out_lines)), Len(Head(out_lines)))

RECURSIVE SumOf(_)
SumOf(lengths) == IF lengths = <<>> THEN 0 ELSE Head(lengths) + SumOf(Tail(lengths))

\* sum(1 for l in lengths if l > n), sum(1 for l in lengths if l < n)
CountOver(lengths, n) == Cardinality({i \in 1..Len(lengths) : lengths[i] > n})
CountUnder(lengths, n) == Cardinality({i \in 1..Len(lengths) : lengths[i] < n})

\* a faulty listing: nothing is listed
remaining_none(out_lines) == <<>>

\* remaining = [l for l in out_lines if len(l) > 75]
IsRemaining(l) == Len(l) > 75
remaining_of(out_lines) == SelectSeq(out_lines, IsRemaining)

\* the number of verses whose stripped text changed
changed_of(orig_blocks, output_blocks_) ==
    Cardinality({i \in 1..MinOf(Len(orig_blocks), Len(output_blocks_)) :
                    strip(orig_blocks[i]) # strip(output_blocks_[i])})

\* the report: mean is sum / total, median is lengths[len(lengths) // 2]
print_stats(output_, orig_blocks, output_blocks_) ==
    LET out_lines == out_lines_of(output_)
        lengths == SortedLengths(out_lines)
    IN  [total |-> Len(lengths),
         sum |-> SumOf(lengths),
         median |-> lengths[(Len(lengths) \div 2) + 1],
         over70 |-> CountOver(lengths, 70),
         over75 |-> CountOver(lengths, 75),
         under15 |-> CountUnder(lengths, 15),
         remaining |-> remaining_of(out_lines),
         changed |-> changed_of(orig_blocks, output_blocks_),
         verses |-> Len(orig_blocks)]

(***************************************************************************)
(* Inputs.  Lines are drawn from HandLines (verse lines that trigger each  *)
(* pass, among them the examples of the documentation) and from GenLines:  *)
(* three stretches of plain text joined by two connectors, which puts the  *)
(* break patterns of M8, M9 and M10 at varying offsets and in every order. *)
(***************************************************************************)
MaxFill == 1
MaxLines == 2
MaxBlocks == 2

PlainText ==
    "now these many people of this great city were strong men with much courage always"
Filler(n) == Upto(PlainText, n)
FillLens == {20 + 9 * i : i \in 0..MaxFill}
Connectors ==
    {"; ", "--", ", and ", ", and he ", ", that ", " that they ",
     " unto the ", ", ", " shall ", " said "}

GenLine(a, c1, b, c2) == Filler(a) \o c1 \o Filler(b) \o c2 \o Filler(20)
GenLines ==
    {GenLine(a, c1, b, c2) :
        a \in FillLens, b \in FillLens, c1 \in Connectors, c2 \in Connectors}

HandLines ==
    << "and he said unto them that he should go",
       "And it came to pass that my father Lehi, having been visited, according to the word of the Lord which he had received, did exceedingly rejoice in the Lord",
       "I, Nephi",
       "and he went forth",
       "And he said, Go and do it now",
       "he made an end of doing it",
       "wherefore he came, yea, he",
       "And it came to pass that he departed into the wilderness",
       "And it came to pass that And it came to pass that he departed into the wilderness",
       "And it came to pass that he went",
       "and they were exceedingly sorrowful, behold, they did mourn",
       "and he did cry unto the people, yea, he did cry aloud, yea, even with great power",
       "and they were strong insomuch that they did prevail insomuch that they did conquer",
       "O my beloved brethren, remember the words of your God",
       "and they did keep the law of Moses, according to the commandments of the Lord",
       "and he spake unto the people concerning the things which were to come",
       "and my father said unto them that they should go down into the land",
       "and Laman was angry with me, and he did smite me with a rod",
       "he took gold, and silver, and he did carry them into the wilderness",
       "they had flocks, and herds, and fowls of every kind in the land",
       "the people who were in the land northward and also in the land southward shall be gathered together and the armies of the king will march against them",
       "and the people who were round about in the land said we will go up to battle against our enemies this day",
       "now the armies of the Lamanites who were many in number would come down again to destroy us",
       "and they journeyed in the wilderness for the space of many days; and they did pitch their tents: and they did rest",
       "and they journeyed in the wilderness for the space of many days--and they did pitch their tents by the sea",
       "now the city of Zarahemla was a great city and it was built upon the plains near the waters of Sidon",
       "now they knew that the city was great and they came down unto the borders by the seashore in haste to see",
       "zzzzzzzzzzzzzzzzzzzzzzzzzzzzzzzzzzzzzzzzzzzzzzzzzzzzzzzzzzzzzzzzzzzzzzzzzzzzzzzzzzzzzzzzzzzzz",
       "now the land being covered, with many waters of great depth around the high mountains",
       "now the land being covered, with deep waters around the high mountains",
       "and he said, I will go, and they said, we will follow after thee",
       "and they were diligent in keeping the commandments in doing good",
       "when he had made an end of speaking he made an end of teaching them",
       "and had we remained in Jerusalem we should also have perished",
       "and the record of my people was written upon the plates of brass",
       "for the word which was written by him and was sealed by them was given unto the children of men",
       "for thus saith the Lord God, the Holy One of Israel, the Mighty God",
       "and they journeyed in the wilderness for the space of many days and did pitch their tents--",
       "and these are the words which I did say, and they shall be written in the book",
       "had we remained in Jerusalem we should have had we known they would perish also",
       "the people who were in the land northward shall be gathered together in one body, and the armies of the king will march against them in the morning",
       "now these are the names of the cities which the Lamanites had taken then",
       "and all the people who were in the land of Zarahemla round about shall go forth",
       "And it came to pass in the land of Gideon",
       "he did pray unto the Lord, his God",
       "for had we remained in Jerusalem, then surely we should have perished",
       "for had we remained in Jerusalem, we should have perished also",
       "and they did rejoice--yea, they did sing",
       "he spake unto them that they should go up to the land of Nephi",
       "he said unto them that they should go up to the land of Nephi",
       "and he spake unto them that Nephi should go up to the land",
       "and they were exceedingly sorrowful, behold, they did go",
       "and they were exceedingly sorrowful, behold, he is",
       "and they were sad--Behold he came again",
       "wherefore he, behold, they did mourn with them",
       "he said, Go and do it now",
       "the Lord hath said, Go and do it now",
       "and they went forth again; now they were a strong people; now they did go up unto him",
       "and he spake unto them, that they should go up to the land" >>

DashLines ==
    << "and they did rejoice--yea", "and he took his tent--and,", "--yea",
       "and departed" >>
ShortLines == << "I, Nephi", "my God, my Savior", "and it was so" >>

\* the verses handed to a pass: lines alone, pairs of lines, and the runs
\* of up to MaxLines + 1 lines that M0 reattaches across
UnitVerses ==
    {<<GenLine(20, c1, 20, c2)>> : c1 \in Connectors, c2 \in Connectors}
    \cup {<<HandLines[i]>> : i \in 1..Len(HandLines)}
    \cup {SubSeq(HandLines, i, i + 1) : i \in 1..(Len(HandLines) - 1)}
    \cup {SubSeq(DashLines, i, MinOf(Len(DashLines), i + n)) :
              i \in 1..Len(DashLines), n \in 0..MaxLines}
    \cup {SubSeq(ShortLines, i, MinOf(Len(ShortLines), i + n)) :
              i \in 1..Len(ShortLines), n \in 0..MaxLines}

\* the lists handed to m10_split_long
M10Lists ==
    {<<l>> : l \in GenLines}
    \cup {SubSeq(HandLines, i, MinOf(Len(HandLines), i + n)) :
              i \in 1..Len(HandLines), n \in 0..(MaxLines - 1)}

\* the blocks of the input files
BlockPool ==
    << "1:1\n" \o HandLines[2],
       "1:2",
       "2:3\nand they did rejoice--yea\nand he took his tent",
       "and he went forth\nI, Nephi",
       "2:4\n" \o HandLines[28] \o "\n" \o HandLines[42],
       " 3:1 \n" \o HandLines[41] \o "\n" \o HandLines[5],
       "Chapter 1\n" \o HandLines[8] >>

\* the input files: up to MaxBlocks blocks that follow each other in
\* BlockPool (taken as a ring), separated by a blank line
BlockRun(i, n) == [k \in 1..n |-> BlockPool[((i + k - 2) % Len(BlockPool)) + 1]]
FilePool ==
    {join(BlockRun(i, n), "\n\n") \o "\n" : i \in 1..Len(BlockPool), n \in 1..MaxBlocks}

(***************************************************************************)
(* The program as a state machine.  pc is the position of process_file;    *)
(* the loop over PIPELINE in process_verse advances one pass per step.     *)
(***************************************************************************)
vars ==
    << pc, content, blocks, block_i, verse_marker, verse_in, content_lines,
       prev_lines, pass_i, output_blocks, output, stack, result, stats,
       ref_str, ref, results >>

Init ==
    /\ pc = "read"
    /\ content \in FilePool
    /\ blocks = <<>>
    /\ block_i = 0
    /\ verse_marker = ""
    /\ verse_in = <<>>
    /\ content_lines = <<>>
    /\ prev_lines = <<>>
    /\ pass_i = 0
    /\ output_blocks = <<>>
    /\ output = ""
    /\ stack = <<>>
    /\ result = <<>>
    /\ stats = <<>>
    /\ ref_str = ""
    /\ ref = <<>>
    /\ results = <<>>

\* blocks = content.strip().split('\n\n')
SplitBlocks ==
    /\ pc = "read"
    /\ blocks' = split(strip(content), "\n\n")
    /\ block_i' = 1
    /\ pc' = "block"
    /\ UNCHANGED << content, verse_marker, verse_in, content_lines, prev_lines,
                    pass_i, output_blocks, output, stack, result >>
    /\ UNCHANGED stats
    /\ UNCHANGED << ref_str, ref, results >>

\* the head of the loop body: marker and content lines of the block
BeginBlock ==
    /\ pc = "block"
    /\ block_i <= Len(blocks)
    /\ verse_marker' = MarkerOf(blocks[block_i])
    /\ verse_in' = ContentOf(blocks[block_i])
    /\ content_lines' = ContentOf(blocks[block_i])
    /\ prev_lines' = <<>>
    /\ pass_i' = 1
    /\ pc' = "verse"
    /\ UNCHANGED << content, blocks, block_i, output_blocks, output, stack, result >>
    /\ UNCHANGED stats
    /\ UNCHANGED << ref_str, ref, results >>

\* process_verse: content_lines = fn(content_lines) for the next pass
RunPass ==
    /\ pc = "verse"
    /\ pass_i <= Len(PIPELINE)
    /\ prev_lines' = content_lines
    /\ content_lines' = Pass(PIPELINE[pass_i], content_lines)
    /\ pass_i' = pass_i + 1
    /\ UNCHANGED << pc, content, blocks, block_i, verse_marker, verse_in,
                    output_blocks, output, stack, result >>
    /\ UNCHANGED stats
    /\ UNCHANGED << ref_str, ref, results >>

\* the tail of the loop body: the block is appended to output_blocks
EmitBlock ==
    /\ pc = "verse"
    /\ pass_i > Len(PIPELINE)
    /\ output_blocks' = Append(output_blocks, OutputBlock(verse_marker, content_lines))
    /\ block_i' = block_i + 1
    /\ pc' = "block"
    /\ UNCHANGED << content, blocks, verse_marker, verse_in, content_lines,
                    prev_lines, pass_i, output, stack, result >>
    /\ UNCHANGED stats
    /\ UNCHANGED << ref_str, ref, results >>

\* output = '\n\n'.join(output_blocks) + '\n'
WriteOutput ==
    /\ pc = "block"
    /\ block_i > Len(blocks)
    /\ output' = join(output_blocks, "\n\n") \o "\n"
    /\ pc' = "done"
    /\ UNCHANGED << content, blocks, block_i, verse_marker, verse_in, content_lines,
                    prev_lines, pass_i, output_blocks, stack, result >>
    /\ UNCHANGED stats
    /\ UNCHANGED << ref_str, ref, results >>

\* __main__: print_stats(output, orig_blocks, output_blocks).  With no
\* content line in the output the mean divides by zero (ZeroDivisionError
\* after 'Total lines: 0').
PrintStats ==
    /\ pc = "done"
    /\ IF out_lines_of(output) = <<>>
       THEN /\ pc' = "stats_error"
            /\ stats' = [total |-> 0]
       ELSE /\ pc' = "stats"
            /\ stats' = print_stats(output, blocks, output_blocks)
    /\ UNCHANGED << content, blocks, block_i, verse_marker, verse_in, content_lines,
                    prev_lines, pass_i, output_blocks, output, stack, result >>
    /\ UNCHANGED << ref_str, ref, results >>

Next ==
    SplitBlocks \/ BeginBlock \/ RunPass \/ EmitBlock \/ WriteOutput \/ PrintStats

Spec == Init /\ [][Next]_vars

(***************************************************************************)
(* The passes and process_verse as functions of one verse: a pass is       *)
(* applied to the verse and then to its own output; process_verse runs     *)
(* the loop of RunPass.                                                    *)
(***************************************************************************)
UnitInit ==
    /\ pc = "unit"
    /\ verse_in \in UnitVerses
    /\ content_lines = verse_in
    /\ content = ""
    /\ blocks = <<>>
    /\ block_i = 0
    /\ verse_marker = ""
    /\ prev_lines = <<>>
    /\ pass_i = 0
    /\ output_blocks = <<>>
    /\ output = ""
    /\ stack = <<>>
    /\ result = <<>>
    /\ stats = <<>>
    /\ ref_str = ""
    /\ ref = <<>>
    /\ results = <<>>

\* fn(lines) for one entry (name, fn) of PIPELINE
ApplyPass ==
    /\ pc = "unit"
    /\ \E k \in 1..Len(PIPELINE) :
          /\ pass_i' = k
          /\ content_lines' = Pass(PIPELINE[k], content_lines)
    /\ prev_lines' = content_lines
    /\ pc' = "once"
    /\ UNCHANGED << content, blocks, block_i, verse_marker, verse_in,
                    output_blocks, output, stack, result >>
    /\ UNCHANGED stats
    /\ UNCHANGED << ref_str, ref, results >>

\* fn(fn(lines)): the same pass on its own output
Reapply ==
    /\ pc = "once"
    /\ content_lines' = Pass(PIPELINE[pass_i], content_lines)
    /\ prev_lines' = content_lines
    /\ pc' = "twice"
    /\ UNCHANGED << content, blocks, block_i, verse_marker, verse_in, pass_i,
                    output_blocks, output, stack, result >>
    /\ UNCHANGED stats
    /\ UNCHANGED << ref_str, ref, results >>

\* the call process_verse(content_lines)
CallVerse ==
    /\ pc = "unit"
    /\ pass_i' = 1
    /\ pc' = "verse"
    /\ UNCHANGED << content, blocks, block_i, verse_marker, verse_in, content_lines,
                    prev_lines, output_blocks, output, stack, result >>
    /\ UNCHANGED stats
    /\ UNCHANGED << ref_str, ref, results >>

UnitNext == ApplyPass \/ Reapply \/ CallVerse \/ RunPass

UnitSpec == UnitInit /\ [][UnitNext]_vars

(***************************************************************************)
(* parse_bom_ref step by step: the lookup of the book, the chapter, and    *)
(* one segment of the verse list per step.                                 *)
(***************************************************************************)
\* the parts that the references of the pool are put together from, each
\* with what it names: a book (id "" when the text names none), a chapter
\* (val None when the text gives none), a list of verses
RefBooks ==
    {[text |-> "Al", id |-> "alma"], [text |-> "2 Ne", id |-> "2nephi"],
     [text |-> "3 Ne", id |-> "3nephi"], [text |-> "Eth", id |-> "ether"],
     [text |-> "Ether", id |-> "ether"], [text |-> "Mos", id |-> "mosiah"],
     [text |-> "Morm", id |-> "mormon"], [text |-> "Moro", id |-> "moroni"],
     [text |-> "WoM", id |-> "words-of-mormon"], [text |-> "  Al", id |-> "alma"],
     [text |-> "see Al", id |-> ""], [text |-> "see Jas", id |-> ""],
     [text |-> "Jas", id |-> ""], [text |-> "Ne", id |-> ""],
     [text |-> "", id |-> ""]}
RefChapters ==
    {[text |-> " 32.", val |-> 32], [text |-> " 9.", val |-> 9],
     [text |-> "7.", val |-> 7], [text |-> " 1 .", val |-> 1],
     [text |-> " 1_0.", val |-> 10], [text |-> " x.", val |-> None],
     [text |-> " 7", val |-> None], [text |-> "ma 5.", val |-> None],
     [text |-> " .", val |-> None]}
RefVerses ==
    {[text |-> "28", verses |-> << 28 >>],
     [text |-> "10-12", verses |-> << 10, 11, 12 >>],
     [text |-> "27, 29", verses |-> << 27, 29 >>],
     [text |-> "33, 35, 36", verses |-> << 33, 35, 36 >>],
     [text |-> "4-4", verses |-> << 4 >>],
     [text |-> "5-3", verses |-> <<>>],
     [text |-> "a", verses |-> <<>>],
     [text |-> "1,,2", verses |-> << 1, 2 >>],
     [text |-> " 7 - 9 ", verses |-> << 7, 8, 9 >>],
     [text |-> "12-", verses |-> <<>>],
     [text |-> "x-3, 4", verses |-> << 4 >>],
     [text |-> "2, 10-11, 3", verses |-> << 2, 10, 11, 3 >>]}
RefText(b, c, v) == b.text \o c.text \o v.text
RefPool == {RefText(b, c, v) : b \in RefBooks, c \in RefChapters, v \in RefVerses}

RefInit ==
    /\ pc = "ref"
    /\ ref_str \in RefPool
    /\ ref = <<>>
    /\ results = <<>>
    /\ content = ""
    /\ blocks = <<>>
    /\ block_i = 0
    /\ verse_marker = ""
    /\ verse_in = <<>>
    /\ content_lines = <<>>
    /\ prev_lines = <<>>
    /\ pass_i = 0
    /\ output_blocks = <<>>
    /\ output = ""
    /\ stack = <<>>
    /\ result = <<>>
    /\ stats = <<>>

\* the variables of the other programs
fileVars ==
    << content, blocks, block_i, verse_marker, verse_in, content_lines,
       prev_lines, pass_i, output_blocks, output, stack, result, stats >>

\* ref_str.strip(), the test for 'see ' and the lookup of the book
RefBook ==
    /\ pc = "ref"
    /\ LET stripped == strip(ref_str)
           found == FindBook(stripped)
       IN  IF StartsWith(stripped, "see ") \/ found.book_id = ""
           THEN /\ pc' = "ref_done"
                /\ ref' = ref
           ELSE /\ pc' = "ref_chapter"
                /\ ref' = found
    /\ UNCHANGED << ref_str, results >>
    /\ UNCHANGED fileVars

\* rest.split('.', 1) and int(dot_parts[0])
RefChapter ==
    /\ pc = "ref_chapter"
    /\ LET dot_parts == SplitOnce(ref.rest, ".")
           chapter == int(dot_parts[1])
       IN  IF Len(dot_parts) # 2 \/ ~chapter.ok
           THEN /\ pc' = "ref_done"
                /\ ref' = ref
           ELSE /\ pc' = "ref_verses"
                /\ ref' = [book_id |-> ref.book_id, rest |-> ref.rest,
                           chapter |-> chapter.val,
                           segments |-> split(strip(dot_parts[2]), ",")]
    /\ UNCHANGED << ref_str, results >>
    /\ UNCHANGED fileVars

\* one turn of the loop over verse_str.split(',')
RefSegment ==
    /\ pc = "ref_verses"
    /\ ref.segments # <<>>
    /\ results' = results \o SegmentTriples(ref.book_id, ref.chapter, Head(ref.segments))
    /\ ref' = [ref EXCEPT !.segments = Tail(ref.segments)]
    /\ UNCHANGED << pc, ref_str >>
    /\ UNCHANGED fileVars

\* return results
RefReturn ==
    /\ pc = "ref_verses"
    /\ ref.segments = <<>>
    /\ pc' = "ref_done"
    /\ UNCHANGED << ref_str, ref, results >>
    /\ UNCHANGED fileVars

RefNext == RefBook \/ RefChapter \/ RefSegment \/ RefReturn

RefSpec == RefInit /\ [][RefNext]_vars

(***************************************************************************)
(* m10_split_long step by step.  stack holds the lines still to be         *)
(* visited, in the order of the result: the lines of the list, and in      *)
(* front of them the parts of the line split last.  An entry records the   *)
(* length of the line it was cut from (caller), the depth of the call that *)
(* visits it and whether it is handed to a recursive call.                 *)
(***************************************************************************)
MaxDepth == 5

M10Entries(parts, caller, depth, thr) ==
    [i \in 1..Len(parts) |->
        [line |-> parts[i], caller |-> caller, depth |-> depth,
         call |-> m10_recurse(parts[i], thr)]]

M10Init ==
    /\ pc = "m10"
    /\ verse_in \in M10Lists
    /\ stack = [i \in 1..Len(verse_in) |->
                   [line |-> verse_in[i], caller |-> None, depth |-> 0, call |-> TRUE]]
    /\ result = <<>>
    /\ content_lines = <<>>
    /\ content = ""
    /\ blocks = <<>>
    /\ block_i = 0
    /\ verse_marker = ""
    /\ prev_lines = <<>>
    /\ pass_i = 0
    /\ output_blocks = <<>>
    /\ output = ""
    /\ stats = <<>>
    /\ ref_str = ""
    /\ ref = <<>>
    /\ results = <<>>

\* one visit of a line: a part at or below the threshold is appended by the
\* caller; a line that is visited by a call is appended when it is at or
\* below the threshold or has no break, and replaced by its two parts
\* otherwise.  A call deeper than MaxDepth ends the run (RecursionError).
M10Step ==
    /\ pc = "m10"
    /\ stack # <<>>
    /\ LET h == Head(stack)
           pos == _find_long_line_break(h.line, threshold)
       IN  IF h.call /\ h.depth > MaxDepth
           THEN /\ pc' = "m10_overflow"
                /\ UNCHANGED << stack, result >>
           ELSE IF ~h.call \/ Len(h.line) <= threshold \/ ~Truthy(pos)
           THEN /\ result' = Append(result, h.line)
                /\ stack' = Tail(stack)
                /\ pc' = pc
           ELSE /\ stack' = M10Entries(m10_parts(h.line, pos), Len(h.line),
                                       h.depth + 1, threshold) \o Tail(stack)
                /\ UNCHANGED << pc, result >>
    /\ UNCHANGED << content, blocks, block_i, verse_marker, verse_in, content_lines,
                    prev_lines, pass_i, output_blocks, output >>
    /\ UNCHANGED stats
    /\ UNCHANGED << ref_str, ref, results >>

\* return result
M10Return ==
    /\ pc = "m10"
    /\ stack = <<>>
    /\ content_lines' = result
    /\ pc' = "m10_done"
    /\ UNCHANGED << content, blocks, block_i, verse_marker, verse_in, prev_lines,
                    pass_i, output_blocks, output, stack, result >>
    /\ UNCHANGED stats
    /\ UNCHANGED << ref_str, ref, results >>

M10Next == M10Step \/ M10Return

M10Spec == M10Init /\ [][M10Next]_vars

(***************************************************************************)
(* Properties of m10_split_long (checked under M10Spec)                    *)
(***************************************************************************)
\* the entries of the stack that a recursive call visits
RecursiveCalls == {i \in 1..Len(stack) : stack[i].call /\ stack[i].caller # None}

\* a line at or below the threshold, or without a break, is appended as it
\* is and nothing is put on the stack for it
NotResplit ==
    (/\ pc = "m10"
     /\ stack # <<>>
     /\ \/ Len(Head(stack).line) <= threshold
        \/ ~Truthy(_find_long_line_break(Head(stack).line, threshold)))
    => (/\ stack' = Tail(stack)
        /\ result' = Append(result, Head(stack).line))

\* the variant of the recursion: a natural number that every step of
\* m10_split_long makes smaller.  A line of length n weighs n * n + 1, so
\* that two parts of at least one character each weigh less than the line
\* they are cut from.
RECURSIVE Weight(_)
Weight(st) ==
    IF st = <<>> THEN 0
    ELSE Len(Head(st).line) * Len(Head(st).line) + 1 + Weight(Tail(st))
M10Variant == (IF pc = "m10" THEN 1 ELSE 0) + Weight(stack)

\* C1: m10_split_long terminates on every list of lines: every recursive
\* call is made on a fragment strictly shorter than the line of its
\* caller, a fragment at or below the threshold or without a legal split
\* position is not split again, and every step makes the variant smaller,
\* so that the call returns (in a state with pc = "m10" one of M10Step and
\* M10Return is enabled: their guards are stack # <<>> and stack = <<>>)
\* without exceeding the depth of the interpreter's stack.
M10Terminates ==
    /\ [](\A i \in RecursiveCalls : Len(stack[i].line) < stack[i].caller)
    /\ [][NotResplit]_vars
    /\ [][M10Variant' < M10Variant]_vars
    /\ [](pc # "m10_overflow")

\* a call has returned after a fragment of a split line was split again
M10TerminatesWitness ==
    /\ pc = "m10_done"
    /\ Len(verse_in) = 1
    /\ Len(result) >= 3

\* C2: when M10 splits an over-threshold line at the position returned by
\* _find_long_line_break, the left part (right-stripped) and the right part
\* (left-stripped) are both strictly shorter than the line.
M10Shrinks ==
    /\ \A i \in 1..Len(stack) :
          stack[i].caller # None => Len(stack[i].line) < stack[i].caller
    /\ (pc = "m10" /\ stack # <<>>) =>
          LET line == Head(stack).line
              pos == _find_long_line_break(line, threshold)
          IN  Truthy(pos) =>
                 /\ Len(m10_parts(line, pos)[1]) < Len(line)
                 /\ Len(m10_parts(line, pos)[2]) < Len(line)

\* the two parts of a split are on the stack, and stripping removed
\* white space between them
M10ShrinksWitness ==
    /\ Len(stack) >= 2
    /\ stack[1].caller # None
    /\ stack[2].caller = stack[1].caller
    /\ Len(stack[1].line) + Len(stack[2].line) < stack[1].caller

\* the valid candidates of a pattern: the positions of its matches that
\* leave min_left characters on the left and min_right on the right
Candidates(line, matches, btype) ==
    {p \in {pos_fn(btype, matches[i]) : i \in 1..Len(matches)} :
        p >= min_left /\ Len(line) - p >= min_right}

\* the candidates of the patterns in the order of their priority: colon,
\* semicolon, dash and the comma+conjunction pairs, the bare 'that' before
\* a clause starter, and for a line over 75 characters the prepositions
PriorityCandidates(line) ==
    [i \in 1..Len(BREAK_PATTERNS_COMMA) |->
        Candidates(line, finditer(BREAK_PATTERNS_COMMA[i], line),
                   BREAK_PATTERNS_COMMA[i].btype)]
    \o << Candidates(line, SelectValid(line, finditer(BARE_THAT, line)), "before") >>
    \o (IF Len(line) > prep_threshold
        THEN [i \in 1..Len(BREAK_PATTERNS_NOCOMMA) |->
                 Candidates(line, finditer(BREAK_PATTERNS_NOCOMMA[i], line), "before")]
        ELSE <<>>)

\* twice the distance of a position from the midpoint of the line
Off(line, p) == Abs(2 * p - Len(line))

\* the break of the line is a candidate of the first pattern that has one,
\* and no candidate of that pattern is nearer to the midpoint
PriorityDecides(line) ==
    LET C == PriorityCandidates(line)
        has == {i \in 1..Len(C) : C[i] # {}}
        pos == _find_long_line_break(line, threshold)
    IN  has # {} =>
           /\ pos \in C[Least(has)]
           /\ \A c \in C[Least(has)] : Off(line, pos) <= Off(line, c)

\* C9: for a line over 70 characters the break position comes from the
\* first pattern, in the order colon, semicolon, dash, the comma+conjunction
\* pairs in list order, bare 'that'+clause starter, then (over 75 only) the
\* prepositions in list order, that has a valid candidate, and it is the
\* candidate of that pattern closest to the midpoint; a pattern of lower
\* priority never decides while one of higher priority has a candidate.
M10Priority ==
    /\ << BREAK_PATTERNS_COMMA[1].lit, BREAK_PATTERNS_COMMA[2].lit,
          BREAK_PATTERNS_COMMA[3].lit >> = << ":", ";", "--" >>
    /\ \A i \in 1..Len(stack) :
          Len(stack[i].line) > threshold => PriorityDecides(stack[i].line)

\* a line has been broken at a pattern of higher priority although a
\* pattern of lower priority has a valid candidate nearer to the midpoint
M10PriorityWitness ==
    /\ pc = "m10"
    /\ Len(verse_in) = 1
    /\ Len(stack) = 2
    /\ stack[1].caller = Len(verse_in[1])
    /\ LET line == verse_in[1]
           C == PriorityCandidates(line)
           pos == _find_long_line_break(line, threshold)
       IN  /\ stack[1].line = m10_parts(line, pos)[1]
           /\ \E i \in 1..Len(C) : \E j \in (i + 1)..Len(C) :
                 /\ pos \in C[i]
                 /\ \E c \in C[j] : Off(line, c) < Off(line, pos)

\* C10: every line of M10's output is at most 70 characters long or has no
\* legal split position; an over-threshold line without a legal split is
\* emitted unchanged and no error is raised; M10 applied to its own output
\* changes nothing.
M10Postcondition ==
    /\ pc # "m10_overflow"
    /\ pc = "m10_done" =>
          /\ \A i \in 1..Len(result) :
                \/ Len(result[i]) <= threshold
                \/ _find_long_line_break(result[i], threshold) = None
          /\ \A i \in 1..Len(verse_in) :
                (/\ Len(verse_in[i]) > threshold
                 /\ _find_long_line_break(verse_in[i], threshold) = None)
                => \E j \in 1..Len(result) : result[j] = verse_in[i]
          /\ result = m10_split_long(verse_in, threshold)
          /\ m10_split_long(result, threshold) = result

\* M10 has returned a list in which a line was split and an over-threshold
\* line without a legal split position was emitted
M10PostconditionWitness ==
    /\ pc = "m10_done"
    /\ Len(result) > Len(verse_in)
    /\ \E i \in 1..Len(result) :
          /\ Len(result[i]) > threshold
          /\ \E j \in 1..Len(verse_in) : verse_in[j] = result[i]

(***************************************************************************)
(* Properties of the passes and of process_verse (checked under UnitSpec)  *)
(***************************************************************************)
\* C3: for every pass P among M0..M16 and every line L,
\* P(P([L])) = P([L]): no pass's trigger is still matchable in the output of
\* that pass.
EveryPassIdempotent ==
    (pc = "twice" /\ Len(verse_in) = 1) => content_lines = prev_lines

\* M4 has been applied to the lines it returned for one line, and has split
\* one of them at 'insomuch that'
EveryPassIdempotentWitness ==
    /\ pc = "twice"
    /\ Len(verse_in) = 1
    /\ PIPELINE[pass_i] = "M4"
    /\ Len(prev_lines) = 2
    /\ Len(content_lines) = 3

\* the number of ', and ' in a line
CountCommaAnd(line) == Cardinality(Occurrences(line, ", and "))

\* C5: a line that contains two or more ', and ' is returned unchanged by
\* M8, whatever its length.
TriadProtection ==
    (/\ pc \in {"once", "twice"}
     /\ PIPELINE[pass_i] = "M8"
     /\ Len(prev_lines) = 1
     /\ CountCommaAnd(prev_lines[1]) >= 2)
    => content_lines = prev_lines

\* M8 has seen a triad of a length in its range that holds ', and he '
TriadProtectionWitness ==
    /\ pc = "once"
    /\ PIPELINE[pass_i] = "M8"
    /\ Len(prev_lines) = 1
    /\ CountCommaAnd(prev_lines[1]) >= 2
    /\ Len(prev_lines[1]) >= 45
    /\ Len(prev_lines[1]) <= 70
    /\ Occurrences(prev_lines[1], ", and he ") # {}

\* process_verse has returned
VerseDone == pc = "verse" /\ pass_i > Len(PIPELINE)

\* C7 as stated: a verse all of whose lines are shorter than 30 characters
\* is returned unchanged by process_verse.
NoOpUnder30 ==
    (VerseDone /\ \A i \in 1..Len(verse_in) : Len(verse_in[i]) < 30)
    => content_lines = verse_in

\* C7, as it holds: a verse all of whose lines are shorter than 18
\* characters and hold no '--' is left unchanged by every pass.  M0, M3,
\* M4, M11, M12 and M13 declare no length threshold and change shorter
\* lines than 30 characters.
NoOpOnShortInput ==
    (/\ pc = "verse"
     /\ \A i \in 1..Len(verse_in) :
           Len(verse_in[i]) < 18 /\ Occurrences(verse_in[i], "--") = {})
    => content_lines = verse_in

\* process_verse has returned a verse of several such lines
NoOpOnShortInputWitness ==
    /\ VerseDone
    /\ Len(verse_in) >= 2
    /\ \A i \in 1..Len(verse_in) :
          Len(verse_in[i]) < 18 /\ Occurrences(verse_in[i], "--") = {}
    /\ \E i \in 1..Len(verse_in) : Len(verse_in[i]) = 17

\* the words of the speech-verb guard, as words of the line
SpeechVerbWords == {"said", "saith", "spake", "spoke", "say", "says"}

\* a speech verb lies within the 15 characters before offset pos
SpeechVerbBefore(line, pos) ==
    \E p \in MaxOf(0, pos - 15)..(pos - 1) : \E w \in SpeechVerbWords :
        /\ At(line, p, w)
        /\ p + Len(w) <= pos
        /\ WordBoundary(line, p)
        /\ WordBoundary(line, p + Len(w))

\* C8 as stated: M9 never splits a line at a modal verb that has a speech
\* verb (said, saith, spake, spoke, say, says) within the 15 characters
\* before it; 'and he said unto them that he should go' is not split.
M9SpeechGuard ==
    (/\ pc = "once"
     /\ PIPELINE[pass_i] = "M9"
     /\ Len(prev_lines) = 1)
    => /\ Len(content_lines) = 2 =>
             ~SpeechVerbBefore(prev_lines[1],
                               Len(prev_lines[1]) - Len(content_lines[2]))
       /\ prev_lines[1] = "and he said unto them that he should go" =>
             content_lines = prev_lines

\* M9 has split a line at a modal verb with the word 'say' in the 15
\* characters before it
M9SpeechGuardWitness ==
    /\ pc = "once"
    /\ PIPELINE[pass_i] = "M9"
    /\ Len(prev_lines) = 1
    /\ Len(content_lines) = 2
    /\ SpeechVerbBefore(prev_lines[1], Len(prev_lines[1]) - Len(content_lines[2]))

(***************************************************************************)
(* Properties of process_verse and process_file (checked under Spec)       *)
(***************************************************************************)
\* the lines after the first k - 1 of the passes M0, M1, ..., M16
StageAt(lines, k) ==
    LET s1 == m0_emdash_trailing(lines)
        s2 == m1_aictp(s1)
        s3 == m2_behold_hinge(s2)
        s4 == m3_yea_trailing(s3)
        s5 == m4_insomuch(s4)
        s6 == m5_vocative(s5)
        s7 == m6_according_to(s6)
        s8 == m7_speech_content(s7)
        s9 == m8_and_pronoun(s8)
        s10 == m9_subject_predicate(s9)
        s11 == m10_split_long(s10, 70)
        s12 == m11_speech_frame(s11)
        s13 == m12_in_gerund(s12)
        s14 == m13_end_of_gerund(s13)
        s15 == m14_inverted_conditional(s14)
        s16 == m15_passive_prep(s15)
        s17 == m16_deity_appositive(s16)
    IN  CASE k = 1 -> lines [] k = 2 -> s1 [] k = 3 -> s2 [] k = 4 -> s3
          [] k = 5 -> s4 [] k = 6 -> s5 [] k = 7 -> s6 [] k = 8 -> s7
          [] k = 9 -> s8 [] k = 10 -> s9 [] k = 11 -> s10 [] k = 12 -> s11
          [] k = 13 -> s12 [] k = 14 -> s13 [] k = 15 -> s14 [] k = 16 -> s15
          [] k = 17 -> s16 [] k = 18 -> s17

\* C6: the pipeline runner applies the 17 passes in the order M0, M1, ...,
\* M16, each once, feeding the output list of each pass to the next:
\* process_verse(lines) = M16(M15(...M1(M0(lines))...)) with M10 at 70.
PipelineOrder ==
    pc = "verse" =>
       /\ pass_i \in 1..18
       /\ content_lines = StageAt(verse_in, pass_i)
       /\ pass_i = 18 => content_lines = process_verse(verse_in)

\* process_verse has returned a verse that M9 and M10 have both split
PipelineOrderWitness ==
    /\ pc = "verse"
    /\ pass_i = 18
    /\ StageAt(verse_in, 11) # StageAt(verse_in, 10)
    /\ StageAt(verse_in, 12) # StageAt(verse_in, 11)

\* the verse markers of a file: the first lines of its blocks that match
\* digits:digits, in order
HasMarker(block) == MarkerOf(block) # ""
MarkersOf(text) ==
    LET B == SelectSeq(split(strip(text), "\n\n"), HasMarker)
    IN  [i \in 1..Len(B) |-> MarkerOf(B[i])]

\* C4 as stated: the sequence of verse markers of the output file equals
\* that of the input file, same markers in the same order, and each marker
\* is the first line of its block.
MarkerPreservation ==
    pc = "done" =>
       /\ MarkersOf(output) = MarkersOf(content)
       /\ \A i \in 1..Len(blocks) :
             HasMarker(blocks[i]) =>
                split(output_blocks[i], "\n")[1] = MarkerOf(blocks[i])

\* a file with a block that is a marker alone, followed by another block,
\* has been written
MarkerPreservationWitness ==
    /\ pc = "done"
    /\ Len(blocks) >= 2
    /\ HasMarker(blocks[1])
    /\ ContentOf(blocks[1]) = <<>>

(***************************************************************************)
(* The scenario of the documentation: verse 1:1 through process_file       *)
(***************************************************************************)
LehiLine == HandLines[2]
LehiBlock == "1:1\n" \o LehiLine

\* the lines of a list that start with 'according to'
AccordingLines(lines) ==
    {i \in 1..Len(lines) : StartsWith(lines[i], "according to")}

\* C11: for the block of marker '1:1' and the line 'And it came to pass
\* that my father Lehi, having been visited, according to the word of the
\* Lord which he had received, did exceedingly rejoice in the Lord', the
\* output block starts with the line '1:1', M1 puts 'And it came to pass
\* that' on a line of its own, a later pass breaks the rest before
\* 'according to', and no output line is longer than 70 characters.
LehiScenario ==
    /\ (pc = "verse" /\ verse_in = << LehiLine >> /\ pass_i = 3) =>
          /\ PIPELINE[pass_i - 1] = "M1"
          /\ content_lines = << "And it came to pass that", From(LehiLine, 25) >>
    /\ (pc = "verse" /\ verse_in = << LehiLine >> /\ pass_i = 18) =>
          /\ AccordingLines(content_lines) # {}
          /\ \A i \in AccordingLines(content_lines) : i > 2
    /\ \A i \in 1..Len(output_blocks) :
          blocks[i] = LehiBlock =>
             LET out == split(output_blocks[i], "\n")
             IN  /\ out[1] = "1:1"
                 /\ out[2] = "And it came to pass that"
                 /\ join(Tail(out), " ") = LehiLine
                 /\ \A k \in 1..Len(out) : Len(out[k]) <= 70

\* the file that holds the block has been written, and the block has come
\* out as five lines
LehiScenarioWitness ==
    /\ pc = "done"
    /\ \E i \in 1..Len(blocks) :
          /\ blocks[i] = LehiBlock
          /\ Len(split(output_blocks[i], "\n")) = 5
          /\ Occurrences(output, "1:1\nAnd it came to pass that\n") # {}

(***************************************************************************)
(* The structure of the file written by process_file                       *)
(***************************************************************************)
\* the blocks of a text under the rule of process_file
BlocksOf(text) == split(strip(text), "\n\n")

\* C12: the output has the block/marker structure of the input.  Read
\* with the driver's own rule the output gives the same number of blocks
\* in the same order; a block whose first line matches digits:digits has
\* that line stripped before the pipeline and written as the first line of
\* the output block, followed by the pipeline's output; a block without
\* marker is wholly content.  This holds also for a block that is a marker
\* with no content lines.
DriverStructure ==
    pc = "done" =>
       LET B == BlocksOf(output)
       IN  /\ Len(B) = Len(blocks)
           /\ \A i \in 1..Len(blocks) :
                 /\ MarkerOf(B[i]) = MarkerOf(blocks[i])
                 /\ ContentOf(B[i]) = process_verse(ContentOf(blocks[i]))
                 /\ ~HasMarker(blocks[i]) =>
                       split(B[i], "\n") = process_verse(split(blocks[i], "\n"))

\* a file has been written in which a marker without content lines is
\* followed by a verse with a marker, and the output read back has an empty
\* line where that marker should be
DriverStructureWitness ==
    /\ pc = "done"
    /\ \E i \in 1..(Len(blocks) - 1) :
          /\ HasMarker(blocks[i])
          /\ ContentOf(blocks[i]) = <<>>
          /\ HasMarker(blocks[i + 1])
          /\ Len(BlocksOf(output)) = Len(blocks)
          /\ split(BlocksOf(output)[i + 1], "\n")[1] = ""

\* C13 as stated: a block whose first line is not a verse marker is passed
\* through unsplit: the lines of the output block are exactly the lines of
\* the input block.
MarkerlessUnsplit ==
    \A i \in 1..Len(output_blocks) :
        ~HasMarker(blocks[i]) =>
            split(output_blocks[i], "\n") = split(blocks[i], "\n")

\* C13, as it holds: a block whose first line is not a verse marker is not
\* rejected.  All its lines, the first included, are content: the output
\* block is the lines that the pipeline returns for them, with no marker
\* line, and the block is written in its place.
MarkerlessIsContent ==
    /\ \A i \in 1..Len(output_blocks) :
          ~HasMarker(blocks[i]) =>
              output_blocks[i] = join(process_verse(split(blocks[i], "\n")), "\n")
    /\ pc = "done" => Len(output_blocks) = Len(blocks)

\* a block without marker has been written with one of its lines split
MarkerlessIsContentWitness ==
    /\ pc = "done"
    /\ \E i \in 1..Len(blocks) :
          /\ ~HasMarker(blocks[i])
          /\ split(output_blocks[i], "\n")[1] = split(blocks[i], "\n")[1]
          /\ Len(split(output_blocks[i], "\n")) > Len(split(blocks[i], "\n"))

(***************************************************************************)
(* Properties of the report (checked under Spec)                           *)
(***************************************************************************)
\* the content lines of the output (neither blank nor a verse marker) that
\* are longer than n characters, trailing white space apart
OutputLinesOver(n) ==
    LET L == split(output, "\n")
    IN  {rstrip(L[i]) :
            i \in {k \in 1..Len(L) :
                      /\ strip(L[k]) # ""
                      /\ ~IsMarker(strip(L[k]))
                      /\ Len(rstrip(L[k])) > n}}

\* the lines that the report lists
Listed == {stats.remaining[i] : i \in 1..Len(stats.remaining)}

\* C14 as stated: every line that remains over the 70-character threshold
\* in the final output is listed in the report's listing of remaining
\* over-length lines.
Over70Listed == pc = "stats" => OutputLinesOver(70) \subseteq Listed

\* C14, as it holds: every content line of the final output that is longer
\* than 75 characters is listed under 'Remaining > 75', and nothing else
\* is; the lines of 71 to 75 characters are counted under 'Over 70' and
\* not listed.
Over75Listed ==
    pc = "stats" =>
       /\ OutputLinesOver(75) = Listed
       /\ stats.over75 = Len(stats.remaining)
       /\ stats.over70 >= stats.over75
       /\ (OutputLinesOver(70) # {}) = (stats.over70 > 0)

\* the report has been printed for an output with a line of 71 to 75
\* characters and a line of more than 75
Over75ListedWitness ==
    /\ pc = "stats"
    /\ stats.remaining # <<>>
    /\ stats.over70 > stats.over75

(***************************************************************************)
(* Independence of the verses (checked under Spec)                         *)
(***************************************************************************)
\* the lines of a block that are its content, and the output block, as
\* functions of the block alone
OwnLines(block) ==
    LET block_lines == split(block, "\n")
    IN  IF IsMarker(strip(block_lines[1])) THEN Tail(block_lines) ELSE block_lines
BlockResult(block) ==
    LET first == strip(split(block, "\n")[1])
        body == join(process_verse(OwnLines(block)), "\n")
    IN  IF IsMarker(first) THEN first \o "\n" \o body ELSE body

\* C15: the output block of a verse depends only on that verse's input
\* block: whatever the file and the position, the block written is one
\* function of the input block, so that two files that differ in one block
\* have outputs that differ at most in that block; and no pass result for
\* a verse depends on a verse processed before.
VerseIndependence ==
    /\ \A i \in 1..Len(output_blocks) : output_blocks[i] = BlockResult(blocks[i])
    /\ pc = "verse" =>
          /\ verse_in = OwnLines(blocks[block_i])
          /\ content_lines = StageAt(OwnLines(blocks[block_i]), pass_i)
    /\ pc \in {"done", "stats", "stats_error"} =>
          /\ Len(output_blocks) = Len(blocks)
          /\ output = join(output_blocks, "\n\n") \o "\n"

\* a file of two different verses has been written, each of them changed
\* by the pipeline, the second one without marker after one with a marker
VerseIndependenceWitness ==
    /\ pc = "done"
    /\ Len(blocks) = 2
    /\ blocks[1] # blocks[2]
    /\ output_blocks[1] # blocks[1]
    /\ output_blocks[2] # blocks[2]
    /\ IsMarker(strip(split(blocks[1], "\n")[1]))
    /\ ~IsMarker(strip(split(blocks[2], "\n")[1]))

(***************************************************************************)
(* Line-locality of the passes (checked under UnitSpec)                    *)
(***************************************************************************)
\* the outputs of a pass for the lines one by one, in order
RECURSIVE EachLine(_, _)
EachLine(name, lines) ==
    IF lines = <<>> THEN <<>>
    ELSE Pass(name, << Head(lines) >>) \o EachLine(name, Tail(lines))

\* C16: every pass other than M0 treats each line in isolation: for all
\* lists A and B, P(A ++ B) = P(A) ++ P(B), and the output is the in-order
\* concatenation of the outputs for the single lines; no pass reorders
\* lines.
LineLocality ==
    (pc \in {"once", "twice"} /\ PIPELINE[pass_i] # "M0") =>
       /\ content_lines = EachLine(PIPELINE[pass_i], prev_lines)
       /\ \A k \in 0..Len(prev_lines) :
             content_lines =
                Pass(PIPELINE[pass_i], SubSeq(prev_lines, 1, k))
                \o Pass(PIPELINE[pass_i], SubSeq(prev_lines, k + 1, Len(prev_lines)))

\* M8 has been applied to a verse of several lines and has split a line
\* that is not the first
LineLocalityWitness ==
    /\ pc = "once"
    /\ PIPELINE[pass_i] = "M8"
    /\ Len(prev_lines) >= 2
    /\ m8_line(prev_lines[1]) = << prev_lines[1] >>
    /\ Len(content_lines) > Len(prev_lines)

(***************************************************************************)
(* Properties of parse_bom_ref (checked under RefSpec)                     *)
(***************************************************************************)
\* the book of the longest abbreviation that the text starts with, or ""
LongestBook(text) ==
    LET M == {i \in 1..Len(ABBREV_TO_ID) : StartsWith(text, ABBREV_TO_ID[i][1])}
        best == CHOOSE i \in M :
                   \A j \in M : Len(ABBREV_TO_ID[j][1]) <= Len(ABBREV_TO_ID[i][1])
    IN  IF M = {} THEN "" ELSE ABBREV_TO_ID[best][2]

\* the triples that a reference put together from b, c and v names
Expected(b, c, v) ==
    IF b.id = "" \/ c.val = None THEN <<>>
    ELSE [i \in 1..Len(v.verses) |-> << b.id, c.val, v.verses[i] >>]

\* C17: parse_bom_ref returns, in order, one (book_id, chapter, verse)
\* triple per verse that the reference names: the book is that of the
\* longest abbreviation the reference starts with, a range a-b gives every
\* verse from a to b, comma-separated items share book and chapter.  It
\* returns the empty list, and raises nothing, for a reference that starts
\* with 'see ', has no known abbreviation, has no '.' after the chapter or
\* has a chapter that is no integer.
RefParse ==
    /\ pc \in {"ref_chapter", "ref_verses"} =>
          ref.book_id = LongestBook(strip(ref_str))
    /\ pc = "ref_done" =>
          /\ \A b \in RefBooks, c \in RefChapters, v \in RefVerses :
                ref_str = RefText(b, c, v) => results = Expected(b, c, v)
          /\ (\/ StartsWith(strip(ref_str), "see ")
              \/ LongestBook(strip(ref_str)) = "")
             => results = <<>>
    /\ pc \in {"ref", "ref_chapter"} => results = <<>>

\* the parser has returned three verses of a range for a reference whose
\* book has two abbreviations that match
RefParseWitness ==
    /\ pc = "ref_done"
    /\ ref_str = "Ether 9.10-12"
    /\ results = << << "ether", 9, 10 >>, << "ether", 9, 11 >>, << "ether", 9, 12 >> >>

(***************************************************************************)
(* The split position of M9 (checked under UnitSpec)                       *)
(***************************************************************************)
\* the modals of a line that pass the guards as the documentation lists
\* them: at least 30 characters before the modal, no comma within 5
\* characters before it, no 'that ' within 10, no speech verb within 15,
\* no 'save ' or ' if ' within 10
ListedGuards(line, pos) ==
    /\ Len(rstrip(Upto(line, pos))) >= 30
    /\ ~Contains(Slice(line, MaxOf(0, pos - 5), pos), ",")
    /\ ~Contains(Slice(line, MaxOf(0, pos - 10), pos), "that ")
    /\ ~SpeechVerbBefore(line, pos)
    /\ ~Contains(Slice(line, MaxOf(0, pos - 10), pos), "save ")
    /\ ~Contains(Slice(line, MaxOf(0, pos - 10), pos), " if ")
ListedModals(line) == {pos \in ModalStarts(line) : ListedGuards(line, pos)}

\* C18: M9 splits a line longer than 70 characters at most once per
\* application (at most two output lines per input line), at the first
\* modal whose preceding segment has at least 30 characters and for which
\* every guard passes (no comma within 5 characters before, no 'that '
\* within 10, no speech verb within 15, no 'save '/' if ' within 10); a
\* line of 70 characters or fewer is returned unchanged.
M9FirstGuardedModal ==
    (/\ pc = "once"
     /\ PIPELINE[pass_i] = "M9"
     /\ Len(prev_lines) = 1)
    => LET line == prev_lines[1]
           G == ListedModals(line)
       IN  /\ Len(content_lines) <= 2
           /\ Len(line) <= 70 => content_lines = prev_lines
           /\ (Len(line) > 70 /\ G = {}) => content_lines = prev_lines
           /\ (Len(line) > 70 /\ G # {}) =>
                 content_lines = << rstrip(Upto(line, Least(G))), From(line, Least(G)) >>

\* M9 has left a line of more than 70 characters whole although one of
\* its modals passes every listed guard: fewer than 20 characters follow
M9FirstGuardedModalWitness ==
    /\ pc = "once"
    /\ PIPELINE[pass_i] = "M9"
    /\ Len(prev_lines) = 1
    /\ Len(prev_lines[1]) > 70
    /\ ListedModals(prev_lines[1]) # {}
    /\ content_lines = prev_lines

(***************************************************************************)
(* The last-resort comma split of M10 (checked under M10Spec)              *)
(***************************************************************************)
\* the positions after a comma followed by white space that leave min_left
\* characters on the left and min_right on the right
CommaCandidates(line) == Candidates(line, finditer(ANY_COMMA, line), "before")

\* no comma pattern, no bare 'that' before a clause starter and (over 75
\* characters) no preposition pattern has a valid position
NoPatternCandidate(line) ==
    \A i \in 1..Len(PriorityCandidates(line)) : PriorityCandidates(line)[i] = {}

\* the line is left to the last resort and a comma qualifies
LastResort(line) ==
    /\ Len(line) > threshold
    /\ NoPatternCandidate(line)
    /\ CommaCandidates(line) # {}

\* C19: a line still over the 70-character threshold on which no comma
\* pattern, bare 'that' or preposition pattern yields a valid position, but
\* which has a comma with at least 18 characters to its left and at least
\* 15 to its right, is split by M10 after such a comma, the one closest to
\* the midpoint; the 75-character threshold gates only the prepositions.
M10LastResortComma ==
    /\ \A i \in 1..Len(stack) :
          LET line == stack[i].line
              pos == _find_long_line_break(line, threshold)
          IN  LastResort(line) =>
                 /\ pos \in CommaCandidates(line)
                 /\ \A c \in CommaCandidates(line) : Off(line, pos) <= Off(line, c)
    /\ pc = "m10_done" =>
          \A i \in 1..Len(verse_in) :
              LastResort(verse_in[i]) =>
                  \A j \in 1..Len(result) : result[j] # verse_in[i]

\* M10 has returned a line of 71 to 75 characters whole although one of its
\* commas is a valid position and no pattern of higher priority has one
M10LastResortCommaWitness ==
    /\ pc = "m10_done"
    /\ Len(verse_in) = 1
    /\ Len(verse_in[1]) <= prep_threshold
    /\ LastResort(verse_in[1])
    /\ result = verse_in

\* M10 has split a line of more than 75 characters at the comma closest to
\* the midpoint, no pattern of higher priority having a valid position
M10LastResortOver75 ==
    /\ pc = "m10_done"
    /\ Len(verse_in) = 1
    /\ Len(verse_in[1]) > prep_threshold
    /\ LastResort(verse_in[1])
    /\ Len(result) >= 2

(***************************************************************************)
(* The length threshold of M1 (checked under UnitSpec)                     *)
(***************************************************************************)
\* the formulas of AICTP_FORMULAS the line starts with
LeadingFormulas(line) ==
    {i \in 1..Len(AICTP_FORMULAS) : StartsWith(line, AICTP_FORMULAS[i])}

\* C20: M1 puts a leading transition formula on its own line only when the
\* whole line is longer than 42 characters: a line of 42 characters or
\* fewer is returned unchanged, and for a longer line that starts with a
\* formula the output is the formula, right-stripped, and the remainder.
M1Threshold ==
    (/\ pc = "once"
     /\ PIPELINE[pass_i] = "M1"
     /\ Len(prev_lines) = 1)
    => LET line == prev_lines[1]
           formula == AICTP_FORMULAS[Least(LeadingFormulas(line))]
       IN  /\ Len(line) <= 42 => content_lines = prev_lines
           /\ (Len(line) > 42 /\ LeadingFormulas(line) # {}) =>
                 content_lines = << rstrip(formula), From(line, Len(formula)) >>

\* M1 has split a line of 42 characters or fewer
M1ThresholdWitness ==
    /\ pc = "once"
    /\ PIPELINE[pass_i] = "M1"
    /\ Len(prev_lines) = 1
    /\ Len(prev_lines[1]) <= 42
    /\ Len(content_lines) = 2

\* M1 has split a line of more than 42 characters after its formula
M1ThresholdOver42 ==
    /\ pc = "once"
    /\ PIPELINE[pass_i] = "M1"
    /\ Len(prev_lines) = 1
    /\ Len(prev_lines[1]) > 42
    /\ LeadingFormulas(prev_lines[1]) # {}
    /\ Len(content_lines) = 2

(***************************************************************************)
(* The length threshold of M16 (checked under UnitSpec)                    *)
(***************************************************************************)
\* the line ends with a divine title and the comma after it
EndsTitleComma(l) ==
    \E i \in 1..Len(DEITY_TITLES) :
        LET t == DEITY_TITLES[i] \o ","
        IN  Len(l) >= Len(t) /\ At(l, Len(l) - Len(t), t)

\* C21: M16 fires only on lines of at least 40 characters: a line shorter
\* than 40 characters is returned unchanged by M16, and for a longer line
\* every emitted line except the last ends with the comma that followed a
\* divine title.
M16Threshold ==
    (/\ pc = "once"
     /\ PIPELINE[pass_i] = "M16"
     /\ Len(prev_lines) = 1)
    => /\ Len(prev_lines[1]) < 40 => content_lines = prev_lines
       /\ Len(prev_lines[1]) >= 40 =>
             \A i \in 1..(Len(content_lines) - 1) : EndsTitleComma(content_lines[i])

\* M16 has split a line of 30 to 39 characters after a divine title
M16ThresholdWitness ==
    /\ pc = "once"
    /\ PIPELINE[pass_i] = "M16"
    /\ Len(prev_lines) = 1
    /\ Len(prev_lines[1]) < 40
    /\ Len(content_lines) = 2
    /\ EndsTitleComma(content_lines[1])

\* M16 has cut a line of 40 characters or more into three
M16ThresholdOver40 ==
    /\ pc = "once"
    /\ PIPELINE[pass_i] = "M16"
    /\ Len(prev_lines) = 1
    /\ Len(prev_lines[1]) >= 40
    /\ Len(content_lines) = 3

(***************************************************************************)
(* The comma guard of M14 (checked under UnitSpec)                         *)
(***************************************************************************)
\* the offsets in the first 30 characters at which 'had <pronoun>' starts
Openers(line) ==
    LET head == Upto(line, MinOf(30, Len(line)))
    IN  {p \in 0..(Len(head) - 1) :
            /\ WordBoundary(head, p)
            /\ At(head, p, "had")
            /\ SkipSpace(head, p + 3) > p + 3
            /\ WordEnds(head, SkipSpace(head, p + 3), PRONOUNS_SET) # {}}

\* a comma stands between an opener and the consequence clause
CommaSeparates(line) ==
    LET m == ConsequenceSearch(From(line, 25))
    IN  /\ Len(line) > 25
        /\ m # None
        /\ \E p \in Openers(line) : \E c \in (p + 1)..(25 + m - 1) : At(line, c, ",")

\* C22: M14 does not fire when a comma already separates the opener ('had
\* <pronoun>' within the first 30 characters) from the consequence clause
\* (the later pronoun+modal pair): a line with a comma anywhere between the
\* two is returned unchanged by M14.
M14CommaGuard ==
    (/\ pc = "once"
     /\ PIPELINE[pass_i] = "M14"
     /\ Len(prev_lines) = 1
     /\ CommaSeparates(prev_lines[1]))
    => content_lines = prev_lines

\* M14 has split a line in which a comma stands between the opener and the
\* consequence clause, more than 5 characters before the clause
M14CommaGuardWitness ==
    /\ pc = "once"
    /\ PIPELINE[pass_i] = "M14"
    /\ Len(prev_lines) = 1
    /\ CommaSeparates(prev_lines[1])
    /\ Len(content_lines) = 2

\* M14 has left a line whole because of a comma within the 5 characters
\* before the consequence clause
M14CommaGuardNear ==
    /\ pc = "once"
    /\ PIPELINE[pass_i] = "M14"
    /\ Len(prev_lines) = 1
    /\ Len(prev_lines[1]) >= 40
    /\ CommaSeparates(prev_lines[1])
    /\ LET split_pos == 25 + ConsequenceSearch(From(prev_lines[1], 25))
       IN  /\ Contains(Slice(prev_lines[1], split_pos - 5, split_pos), ",")
           /\ Len(rstrip(Upto(prev_lines[1], split_pos))) >= 20
           /\ Len(From(prev_lines[1], split_pos)) >= 15
    /\ content_lines = prev_lines

(***************************************************************************)
(* The two forms of M3 (checked under UnitSpec)                            *)
(***************************************************************************)
\* the offsets n >= 10 at which sep stands, followed (after white space
\* when the separator is a comma) by 'yea,', white space and text
YeaAfter(line, sep) ==
    {n \in 10..Len(line) :
        /\ At(line, n, sep)
        /\ LET q == SkipSpace(line, n + Len(sep))
           IN  /\ sep = "," => q > n + 1
               /\ YeaAt(line, q)}

\* the line cut after the separator at n, 'yea, <text>' on the next line
YeaSplit(line, n, sep) ==
    << Upto(line, n) \o sep, From(line, SkipSpace(line, n + Len(sep))) >>

\* C23: M3 moves a trailing 'yea,' continuation to a new line for both
\* documented forms: '<prefix>, yea, <text>' becomes '<prefix>,' and
\* 'yea, <text>', and '<prefix>--yea, <text>' becomes '<prefix>--' and
\* 'yea, <text>', for every prefix of at least 10 characters.
M3BothForms ==
    (/\ pc = "once"
     /\ PIPELINE[pass_i] = "M3"
     /\ Len(prev_lines) = 1)
    => LET line == prev_lines[1]
           C == YeaAfter(line, ",")
           D == YeaAfter(line, "--")
       IN  /\ C # {} => content_lines = YeaSplit(line, Least(C), ",")
           /\ (C = {} /\ D # {}) => content_lines = YeaSplit(line, Least(D), "--")

\* M3 has left a line '<prefix>--yea, <text>' whole
M3BothFormsWitness ==
    /\ pc = "once"
    /\ PIPELINE[pass_i] = "M3"
    /\ Len(prev_lines) = 1
    /\ YeaAfter(prev_lines[1], ",") = {}
    /\ YeaAfter(prev_lines[1], "--") # {}
    /\ content_lines = prev_lines

\* M3 has split a line '<prefix>, yea, <text>' after the comma
M3CommaForm ==
    /\ pc = "once"
    /\ PIPELINE[pass_i] = "M3"
    /\ Len(prev_lines) = 1
    /\ YeaAfter(prev_lines[1], ",") # {}
    /\ Len(content_lines) = 2
    /\ StartsWith(content_lines[2], "yea, ")

(***************************************************************************)
(* The fragments of an M7 split (checked under UnitSpec)                   *)
(***************************************************************************)
\* the line starts with the content word, in any case, and white space
StartsContent(l, word) == AtI(l, 0, word) /\ IsSpace(l, Len(word))

\* C24: M7 rejects any split in which either fragment would be under 18
\* characters: whenever M7 splits a line, both output lines have at least
\* 18 characters, the second starts with the content-introducing token, and
\* a 'that' split happens only when the word after 'that' is in the
\* clause-starter allow-list; lines shorter than 48 characters are never
\* split.
M7Fragments ==
    (/\ pc = "once"
     /\ PIPELINE[pass_i] = "M7"
     /\ Len(prev_lines) = 1
     /\ content_lines # prev_lines)
    => /\ Len(prev_lines[1]) >= 48
       /\ Len(content_lines) = 2
       /\ Len(content_lines[1]) >= 18
       /\ Len(content_lines[2]) >= 18
       /\ \E i \in 1..Len(CONTENT_WORDS) :
             StartsContent(content_lines[2], CONTENT_WORDS[i].word)
       /\ StartsContent(content_lines[2], "that") =>
             StartsContentClause(content_lines[2], 5)
       /\ \E k \in 1..Len(prev_lines[1]) :
             /\ content_lines[2] = From(prev_lines[1], k)
             /\ content_lines[1] = RStripSet(Upto(prev_lines[1], k), {",", " "})

\* M7 has split a line before 'that' and a clause starter, and the left
\* fragment has exactly 18 characters
M7FragmentsWitness ==
    /\ pc = "once"
    /\ PIPELINE[pass_i] = "M7"
    /\ Len(prev_lines) = 1
    /\ Len(content_lines) = 2
    /\ Len(content_lines[1]) = 18
    /\ StartsContent(content_lines[2], "that")

(***************************************************************************)
(* The conditions of an M2 split (checked under UnitSpec)                  *)
(***************************************************************************)
\* the line ends with a comma, a semicolon or a dash, after at least 15
\* characters
EndsPunctuated(l) ==
    \/ Len(l) >= 16 /\ (At(l, Len(l) - 1, ",") \/ At(l, Len(l) - 1, ";"))
    \/ Len(l) >= 17 /\ At(l, Len(l) - 2, "--")

\* M2 has split the line before 'behold' at offset b
BeholdSplitAt(b) ==
    /\ content_lines = << rstrip(Upto(prev_lines[1], b)), From(prev_lines[1], b) >>
    /\ AtI(prev_lines[1], b, "behold")
    /\ EndsPunctuated(content_lines[1])

\* C25 as stated: M2 splits a line before a mid-line 'behold' only when the
\* marker is preceded by punctuation (comma, semicolon or dash), at least
\* 15 characters precede it and at least 15 characters of continuation
\* follow it; otherwise the line is returned unchanged.
M2HingeFollowedBy15 ==
    (/\ pc = "once"
     /\ PIPELINE[pass_i] = "M2"
     /\ Len(prev_lines) = 1
     /\ content_lines # prev_lines)
    => \E b \in 15..Len(prev_lines[1]) :
          /\ BeholdSplitAt(b)
          /\ Len(prev_lines[1]) - (b + 6) >= 15

\* C25, as it holds: M2 splits a line before a mid-line 'behold' only when
\* the marker is preceded by punctuation, at least 15 characters precede
\* the punctuation and the text from 'behold' to the end of the line, the
\* marker included, has at least 15 characters; otherwise the line is
\* returned unchanged.
M2Hinge ==
    (/\ pc = "once"
     /\ PIPELINE[pass_i] = "M2"
     /\ Len(prev_lines) = 1
     /\ content_lines # prev_lines)
    => \E b \in 15..Len(prev_lines[1]) :
          /\ BeholdSplitAt(b)
          /\ Len(content_lines[2]) >= 15

\* M2 has split a line on which fewer than 15 characters follow 'behold'
M2HingeWitness ==
    /\ pc = "once"
    /\ PIPELINE[pass_i] = "M2"
    /\ Len(prev_lines) = 1
    /\ Len(content_lines) = 2
    /\ AtI(content_lines[2], 0, "behold")
    /\ Len(content_lines[2]) < 15 + 6

(***************************************************************************)
(* The position of the attribution clause of M11 (checked under UnitSpec)  *)
(***************************************************************************)
\* the offsets, the start of the line included, at which an attribution
\* clause stands whose comma is followed by white space and at least 10
\* characters
Attributions(line) == {a \in 0..(Len(line) - 1) : FrameAt(line, a) # NoMatch}

\* C26: M11 detects an attribution clause (inverted 'said he,' or normal
\* '<subject> [hath|has|had] said|saith|spake|declared,') anywhere in the
\* line, including when the clause opens the line, and whenever at least
\* 10 characters follow the comma it emits the text up to and including
\* that comma as one line and the quoted content as the next line.
M11Anywhere ==
    (/\ pc = "once"
     /\ PIPELINE[pass_i] = "M11"
     /\ Len(prev_lines) = 1
     /\ Attributions(prev_lines[1]) # {})
    => \E a \in Attributions(prev_lines[1]) :
          content_lines = << Upto(prev_lines[1], FrameAt(prev_lines[1], a)[1]),
                             From(prev_lines[1], FrameAt(prev_lines[1], a)[2]) >>

\* M11 has left a line whole that opens with an attribution clause
M11AnywhereWitness ==
    /\ pc = "once"
    /\ PIPELINE[pass_i] = "M11"
    /\ Len(prev_lines) = 1
    /\ Attributions(prev_lines[1]) = {0}
    /\ content_lines = prev_lines

\* M11 has split a line after an attribution clause in mid-line, text
\* following the clause
M11MidLine ==
    /\ pc = "once"
    /\ PIPELINE[pass_i] = "M11"
    /\ Len(prev_lines) = 1
    /\ Len(content_lines) = 2
    /\ \E a \in Attributions(prev_lines[1]) :
          a > 0 /\ Len(content_lines[1]) = FrameAt(prev_lines[1], a)[1]

(***************************************************************************)
(* The reattachment of M0 (checked under UnitSpec)                         *)
(***************************************************************************)
\* the offsets of a '--' that is followed, to the end of the line, by one
\* bare word and at most one of , ; .
TrailingDashes(line) ==
    {d \in 0..(Len(line) - 3) :
        /\ At(line, d, "--")
        /\ LET w == SkipWord(line, d + 2)
           IN  /\ w > d + 2
               /\ \/ w = Len(line)
                  \/ w = Len(line) - 1 /\ Ch(line, w) \in {",", ";", "."}}

\* the line of the verse at i gives its trailing word to the next line
GivesWord(lines, i) ==
    i >= 1 /\ i < Len(lines) /\ TrailingDashes(lines[i]) # {}

\* what line i receives from the line before it, and what it keeps
Received(lines, i) ==
    IF GivesWord(lines, i - 1)
    THEN From(lines[i - 1], Greatest(TrailingDashes(lines[i - 1])) + 2) \o " "
    ELSE ""
Kept(lines, i) ==
    IF GivesWord(lines, i)
    THEN Upto(lines[i], Greatest(TrailingDashes(lines[i]))) \o "--"
    ELSE lines[i]

\* C27: when a line that is not the last line of the verse ends in '--'
\* immediately followed by one bare word (optionally followed by one of
\* , ; .), M0 cuts the line after the '--' and prepends that word plus one
\* space to the next line; the number of lines is unchanged, the last line
\* of a verse is never altered by its own trailing word, and a single-line
\* verse is returned unchanged.
M0Reattach ==
    (pc = "once" /\ PIPELINE[pass_i] = "M0")
    => /\ Len(content_lines) = Len(prev_lines)
       /\ Len(prev_lines) = 1 => content_lines = prev_lines
       /\ \A i \in 1..Len(prev_lines) :
             content_lines[i] = Received(prev_lines, i) \o Kept(prev_lines, i)

\* M0 has left a line whole that is not the last of its verse and consists
\* of '--' and one bare word
M0ReattachWitness ==
    /\ pc = "once"
    /\ PIPELINE[pass_i] = "M0"
    /\ Len(prev_lines) >= 2
    /\ TrailingDashes(prev_lines[1]) = {0}
    /\ content_lines[1] = prev_lines[1]

\* M0 has moved the trailing words of two lines in a row, and the last
\* line, which ends in a trailing word itself, has kept it
M0ReattachChain ==
    /\ pc = "once"
    /\ PIPELINE[pass_i] = "M0"
    /\ Len(prev_lines) = 3
    /\ GivesWord(prev_lines, 1)
    /\ GivesWord(prev_lines, 2)
    /\ TrailingDashes(prev_lines[3]) # {}
    /\ content_lines[3] = Received(prev_lines, 3) \o prev_lines[3]
    /\ content_lines # prev_lines

(***************************************************************************)
(* The choice of _best_pos among its candidates (checked under M10Spec)    *)
(***************************************************************************)
\* the match lists that _find_long_line_break hands to _best_pos for a
\* line, with the kind of position taken from a match
MatchLists(line) ==
    [i \in 1..Len(BREAK_PATTERNS_COMMA) |->
        [matches |-> finditer(BREAK_PATTERNS_COMMA[i], line),
         btype |-> BREAK_PATTERNS_COMMA[i].btype]]
    \o << [matches |-> SelectValid(line, finditer(BARE_THAT, line)),
           btype |-> "before"] >>
    \o [i \in 1..Len(BREAK_PATTERNS_NOCOMMA) |->
           [matches |-> finditer(BREAK_PATTERNS_NOCOMMA[i], line),
            btype |-> "before"]]
    \o << [matches |-> finditer(ANY_COMMA, line), btype |-> "before"] >>

\* the position returned is the valid candidate nearest to the midpoint,
\* the leftmost of two at the same distance; None when none is valid
NearestLeftmost(line, l) ==
    LET C == Candidates(line, l.matches, l.btype)
        pos == _best_pos(line, l.matches, l.btype)
    IN  IF C = {} THEN pos = None
        ELSE /\ pos \in C
             /\ \A c \in C : Off(line, pos) <= Off(line, c)
             /\ \A c \in C : Off(line, pos) = Off(line, c) => pos <= c

\* two valid candidates of the list are at the same distance from the
\* midpoint and no candidate is nearer
HasTie(line, l) ==
    LET C == Candidates(line, l.matches, l.btype)
    IN  \E c \in C : \E d \in C :
           /\ c < d
           /\ Off(line, c) = Off(line, d)
           /\ \A e \in C : Off(line, c) <= Off(line, e)

\* C28: among the candidates that satisfy the minimum left (18) and right
\* (15) lengths _best_pos returns the one with the smallest distance to
\* len(line)/2, the earlier (leftmost) one when two valid candidates are
\* equidistant from the midpoint, and none when no candidate is valid.
BestPosTieBreak ==
    /\ min_left = 18 /\ min_right = 15
    /\ (stack # <<>> /\ Len(Head(stack).line) > threshold) =>
          LET lists == MatchLists(Head(stack).line)
          IN  \A k \in 1..Len(lists) : NearestLeftmost(Head(stack).line, lists[k])

\* M10 has split a line at the earlier of two semicolons that are valid
\* and equally far from the midpoint
BestPosTieBreakWitness ==
    /\ pc = "m10"
    /\ Len(verse_in) = 1
    /\ Len(stack) = 2
    /\ stack[1].caller = Len(verse_in[1])
    /\ LET line == verse_in[1]
           l == MatchLists(line)[2]
       IN  /\ HasTie(line, l)
           /\ Len(stack[1].line) < Len(stack[2].line)
           /\ stack[1].line = m10_parts(line, _best_pos(line, l.matches, l.btype))[1]

(***************************************************************************)
(* The conservation of the text (checked under UnitSpec)                   *)
(***************************************************************************)
\* the characters of s that are not in the set drop, in order
RECURSIVE Without(_, _)
Without(s, drop) ==
    IF Len(s) = 0 THEN ""
    ELSE IF Len(s) = 1 THEN (IF s \in drop THEN "" ELSE s)
    ELSE Without(Upto(s, Len(s) \div 2), drop) \o Without(From(s, Len(s) \div 2), drop)

\* the characters of the lines, in order, that are not in the set drop
TextOf(lines, drop) == Without(join(lines, " "), drop)

\* C29: for every verse the sequence of non-whitespace characters of the
\* output lines of process_verse, concatenated in order, equals that of
\* the input lines; passes only move line breaks and white space and never
\* drop, add or reorder any other character.
TextConservation ==
    VerseDone => TextOf(content_lines, WhiteSpace) = TextOf(verse_in, WhiteSpace)

\* process_verse has returned a verse with a comma fewer than it was given
\* and all its other characters in place
TextConservationWitness ==
    /\ VerseDone
    /\ Len(TextOf(content_lines, WhiteSpace)) = Len(TextOf(verse_in, WhiteSpace)) - 1
    /\ TextOf(content_lines, WhiteSpace \cup {","}) = TextOf(verse_in, WhiteSpace \cup {","})

\* process_verse has returned a verse cut into more lines, with every
\* character that is not white space in place
TextConservationKept ==
    /\ VerseDone
    /\ Len(content_lines) >= Len(verse_in) + 3
    /\ TextOf(content_lines, WhiteSpace) = TextOf(verse_in, WhiteSpace)

(***************************************************************************)
(* No pass after M0 lengthens a line (checked under UnitSpec)              *)
(***************************************************************************)
\* the lines of the list that are longer than n characters
LongerThan(lines, n) == {i \in 1..Len(lines) : Len(lines[i]) > n}

\* the index of M10 in PIPELINE
M10Index == CHOOSE k \in 1..Len(PIPELINE) : PIPELINE[k] = "M10"

\* C30: no pass other than M0 ever produces a line longer than the input
\* line it was cut from: for every pass P in M1..M16 and every line L, each
\* line of P([L]) has length at most len(L).  Hence once M10 has run, no
\* later pass (M11..M16) can push a line back over the 70-character
\* threshold.
NoLineGrows ==
    /\ (/\ pc = "once"
        /\ PIPELINE[pass_i] # "M0"
        /\ Len(prev_lines) = 1)
       => LongerThan(content_lines, Len(prev_lines[1])) = {}
    /\ (/\ pc = "verse"
        /\ pass_i - 1 > M10Index
        /\ LongerThan(prev_lines, threshold) = {})
       => LongerThan(content_lines, threshold) = {}

\* in a verse with a line of more than 70 characters a pass after M10 has
\* split a line, and no line is over 70 characters before or after it
NoLineGrowsWitness ==
    /\ pc = "verse"
    /\ pass_i - 1 > M10Index
    /\ LongerThan(verse_in, threshold) # {}
    /\ LongerThan(prev_lines, threshold) = {}
    /\ Len(content_lines) > Len(prev_lines)
    /\ LongerThan(content_lines, threshold) = {}

=============================================================================
